---- MODULE Spec2Model ----
(***************************************************************************)
(* react-safe-hooks: the dependency-change detection engine, the           *)
(* deduplicated warning emitter and the wrappers useSafeCallback,          *)
(* useSafeMemo, useSafeEffect, useSafeLayoutEffect, useSafeState,          *)
(* useSafeReducer, useSafeContext and useIsMounted.                        *)
(*                                                                         *)
(* JavaScript values are tokens [type, id]; objects live in `heap`, which  *)
(* maps an object id to its own properties (key -> [value, enumerable]).   *)
(* JavaScript arrays used as dependency lists are TLA+ sequences read      *)
(* through At (0-based, out of range reads give undefined).                *)
(***************************************************************************)
EXTENDS Integers, Sequences, FiniteSets, TLC

VARIABLES
    nodeEnv,      \* process.env.NODE_ENV as it is now
    loadedEnv,    \* process.env.NODE_ENV as read when devOnly.ts was evaluated
    heap,         \* object id -> own properties
    call,         \* the latest call of a pure function: arguments and result;
                  \* in the hook runs, history: what the call-site was given
    warnedKeys,   \* warn.ts: the Set of keys already warned
    emitted,      \* the console.warn calls made by the latest operation, in order
    passed,       \* history: the warnOnce calls made by the latest operation
    seenBefore,   \* history: keys passed to warnOnce since the last clearWarnings,
                  \*          before the latest operation
    lastOp,       \* history: the latest operation, and whether it tracked a render
    site          \* per call-site hook state of the wrapper in use

vars == <<nodeEnv, loadedEnv, heap, call, warnedKeys, emitted, passed,
          seenBefore, lastOp, site>>

----------------------------------------------------------------------------
(* Bounds *)

MaxLen == 2          \* longest dependency list given to the pure functions
MaxArrayLen == 1     \* longest array literal on the heap of the comparator runs
MaxRenders == 3      \* render cycles per call-site
MaxHookLen == 1      \* longest dependency list given to a hook
MaxChangeCount == 6  \* a callback tracker is updated while its count is below
MaxCycles == 10      \* largest cycle count given to the classifiers
MaxMemoRenders == 15 \* render cycles of a useSafeMemo call-site
MaxEffectLen == 3    \* longest dependency list given to an effect hook
MaxUpdates == 3      \* calls of a returned setter, dispatch or isMounted
MaxCallbackLen == 2  \* longest dependency list of the callback call-site runs
MaxCallbackCycles == 4 \* render cycles of the callback call-site runs
MaxSiteRenders == 3  \* render cycles of each of two call-sites
MaxWrapperCycles == 4 \* render cycles of the call-site of any wrapper
MaxKindLen == 2      \* longest list of values of every kind

----------------------------------------------------------------------------
(* JavaScript values *)

Undefined == [type |-> "undefined", id |-> "undefined"]
Null      == [type |-> "null", id |-> "null"]
Num(n)    == [type |-> "number", id |-> n]
Fn(f)     == [type |-> "function", id |-> f]
Obj(o)    == [type |-> "object", id |-> o]
NaN       == Num("NaN")
PlusZero  == Num("+0")
MinusZero == Num("-0")

\* typeof: null answers "object"
typeof(v) == IF v.type = "null" THEN "object" ELSE v.type

\* Object.is: SameValue. NaN is one token, +0 and -0 are two.
ObjectIs(a, b) == a = b

\* === : NaN is unequal to everything, +0 and -0 are equal
StrictEquals(a, b) ==
    IF a.type = "number" /\ b.type = "number"
    THEN /\ a.id # "NaN"
         /\ b.id # "NaN"
         /\ (a.id = b.id \/ {a.id, b.id} = {"+0", "-0"})
    ELSE a = b

\* an optional number (a length that may be undefined)
None == <<>>
Some(n) == <<n>>

\* an optional dependency list: `undefined` or an array
Absent == [present |-> FALSE, items |-> <<>>]
Present(l) == [present |-> TRUE, items |-> l]

\* list[i] of a JavaScript array, 0-based
At(list, i) == IF i >= 0 /\ i < Len(list) THEN list[i + 1] ELSE Undefined

MathMax(m, n) == IF m >= n THEN m ELSE n

----------------------------------------------------------------------------
(* The heap *)

ObjIds == {"o1", "o2", "o3", "o4"}

\* Object.keys order: integer keys ascending, then string keys
KeyOrder == <<"0", "1", "2", "length", "x">>

IndexKey(i) == KeyOrder[i + 1]
LengthValue(n) == IF n = 0 THEN PlusZero ELSE Num(IndexKey(n))

\* an object literal: every property enumerable
ObjectLiteral(keys, valueOf) ==
    [k \in keys |-> [value |-> valueOf[k], enumerable |-> TRUE]]

\* an array literal: enumerable index properties, non-enumerable own `length`
ArrayLiteral(items) ==
    [k \in {IndexKey(i) : i \in 0 .. Len(items) - 1} \cup {"length"} |->
        IF k = "length"
        THEN [value |-> LengthValue(Len(items)), enumerable |-> FALSE]
        ELSE [value |-> items[CHOOSE i \in 1 .. Len(items) : IndexKey(i - 1) = k],
              enumerable |-> TRUE]]

ObjectKeys(v) ==
    SelectSeq(KeyOrder,
              LAMBDA k : k \in DOMAIN heap[v.id] /\ heap[v.id][k].enumerable)

hasOwnProperty(v, key) == key \in DOMAIN heap[v.id]

\* v[key] (no inherited property is named by a modelled key)
Get(v, key) == IF hasOwnProperty(v, key) THEN heap[v.id][key].value ELSE Undefined

\* the heap of the hook and differ runs:
\* o1 = {x: 1}, o2 = {x: 1}, o3 = {x: NaN}, o4 = [1]
FixedHeap ==
    [o \in ObjIds |->
        CASE o = "o1" -> ObjectLiteral({"x"}, [k \in {"x"} |-> Num("1")])
          [] o = "o2" -> ObjectLiteral({"x"}, [k \in {"x"} |-> Num("1")])
          [] o = "o3" -> ObjectLiteral({"x"}, [k \in {"x"} |-> NaN])
          [] OTHER    -> ArrayLiteral(<<Num("1")>>)]

----------------------------------------------------------------------------
(* devOnly.ts *)

DEV_readAtEachCall == nodeEnv # "production"

\* export const __DEV__ = process.env.NODE_ENV !== "production"
\* evaluated once, when the module is evaluated
__DEV__ == loadedEnv # "production"

----------------------------------------------------------------------------
(* depsTracker: shallowEqual *)

RECURSIVE shallowEqualKeys(_, _, _, _)
shallowEqualKeys(a, b, keysA, i) ==
    IF i > Len(keysA) THEN TRUE
    ELSE IF \/ ~hasOwnProperty(b, keysA[i])
            \/ ~ObjectIs(Get(a, keysA[i]), Get(b, keysA[i]))
         THEN FALSE
         ELSE shallowEqualKeys(a, b, keysA, i + 1)

shallowEqual_noKeyCount(a, b) ==
    IF ObjectIs(a, b) THEN TRUE
    ELSE IF \/ typeof(a) # "object"
            \/ StrictEquals(a, Null)
            \/ typeof(b) # "object"
            \/ StrictEquals(b, Null)
         THEN FALSE
         ELSE shallowEqualKeys(a, b, ObjectKeys(a), 1)

shallowEqual(a, b) ==
    IF ObjectIs(a, b) THEN TRUE
    ELSE IF \/ typeof(a) # "object"
            \/ StrictEquals(a, Null)
            \/ typeof(b) # "object"
            \/ StrictEquals(b, Null)
         THEN FALSE
         ELSE LET keysA == ObjectKeys(a)
                  keysB == ObjectKeys(b)
              IN  IF Len(keysA) # Len(keysB) THEN FALSE
                  ELSE shallowEqualKeys(a, b, keysA, 1)

----------------------------------------------------------------------------
(* depsTracker: trackDependencyChanges *)

depChanged_strictEquals(currentDeps, prevDeps, i) ==
    ~StrictEquals(At(currentDeps, i), At(prevDeps, i))

\* !Object.is(currentDeps[i], prevDeps[i])
depChanged(currentDeps, prevDeps, i) ==
    ~ObjectIs(At(currentDeps, i), At(prevDeps, i))

RECURSIVE changedIndicesLoop(_, _, _, _, _)
changedIndicesLoop(currentDeps, prevDeps, i, maxLength, changedIndices) ==
    IF i >= maxLength THEN changedIndices
    ELSE changedIndicesLoop(currentDeps, prevDeps, i + 1, maxLength,
            IF depChanged(currentDeps, prevDeps, i)
            THEN Append(changedIndices, i)
            ELSE changedIndices)

hasChangesOf_indicesOnly(changedIndices, lengthChanged) ==
    Len(changedIndices) > 0

\* hasChanges: changedIndices.length > 0 || lengthChanged
hasChangesOf(changedIndices, lengthChanged) ==
    Len(changedIndices) > 0 \/ lengthChanged

\* both lists present
trackPresent(cur, prev) ==
    LET lengthChanged == Len(cur) # Len(prev)
        maxLength == MathMax(Len(cur), Len(prev))
        changedIndices == changedIndicesLoop(cur, prev, 0, maxLength, <<>>)
    IN  [hasChanges |-> hasChangesOf(changedIndices, lengthChanged),
         changedIndices |-> changedIndices,
         lengthChanged |-> lengthChanged,
         prevLength |-> IF lengthChanged THEN Some(Len(prev)) ELSE None,
         currentLength |-> IF lengthChanged THEN Some(Len(cur)) ELSE None]

\* the two `undefined` cases; the fields a literal leaves out read as undefined
trackNoChange ==
    [hasChanges |-> FALSE, changedIndices |-> <<>>, lengthChanged |-> FALSE,
     prevLength |-> None, currentLength |-> None]

trackOneUndefined(currentDeps, prevDeps) ==
    [hasChanges |-> TRUE, changedIndices |-> <<>>, lengthChanged |-> TRUE,
     prevLength |-> IF prevDeps.present THEN Some(Len(prevDeps.items)) ELSE None,
     currentLength |-> IF currentDeps.present
                       THEN Some(Len(currentDeps.items)) ELSE None]

trackDependencyChanges_undefinedAsEmpty(currentDeps, prevDeps) ==
    trackPresent(currentDeps.items, prevDeps.items)

trackDependencyChanges_gated(currentDeps, prevDeps) ==
    IF ~__DEV__ THEN trackNoChange
    ELSE IF ~currentDeps.present /\ ~prevDeps.present THEN trackNoChange
    ELSE IF ~currentDeps.present \/ ~prevDeps.present
    THEN trackOneUndefined(currentDeps, prevDeps)
    ELSE trackPresent(currentDeps.items, prevDeps.items)

trackDependencyChanges(currentDeps, prevDeps) ==
    IF ~currentDeps.present /\ ~prevDeps.present THEN trackNoChange
    ELSE IF ~currentDeps.present \/ ~prevDeps.present
    THEN trackOneUndefined(currentDeps, prevDeps)
    ELSE trackPresent(currentDeps.items, prevDeps.items)

----------------------------------------------------------------------------
(* depsTracker: detectDepsLengthChange *)

detectDepsLengthChange_undefinedAsEmpty(currentDeps, prevDeps) ==
    Len(currentDeps.items) # Len(prevDeps.items)

detectDepsLengthChange(currentDeps, prevDeps) ==
    IF ~currentDeps.present /\ ~prevDeps.present THEN FALSE
    ELSE IF ~currentDeps.present \/ ~prevDeps.present THEN TRUE
    ELSE Len(currentDeps.items) # Len(prevDeps.items)

----------------------------------------------------------------------------
(* depsTracker: detectUnstableDeps *)

RECURSIVE unstableIndicesLoop_noShallowEqual(_, _, _, _)
unstableIndicesLoop_noShallowEqual(currentDeps, prevDeps, i, unstableIndices) ==
    IF i >= Len(currentDeps) THEN unstableIndices
    ELSE LET current == At(currentDeps, i)
             prev == At(prevDeps, i)
         IN  unstableIndicesLoop_noShallowEqual(currentDeps, prevDeps, i + 1,
                IF /\ ~StrictEquals(current, prev)
                   /\ typeof(current) = "object"
                   /\ ~StrictEquals(current, Null)
                   /\ typeof(prev) = "object"
                   /\ ~StrictEquals(prev, Null)
                THEN Append(unstableIndices, i)
                ELSE unstableIndices)

RECURSIVE unstableIndicesLoop_anyChanged(_, _, _, _)
unstableIndicesLoop_anyChanged(currentDeps, prevDeps, i, unstableIndices) ==
    IF i >= Len(currentDeps) THEN unstableIndices
    ELSE unstableIndicesLoop_anyChanged(currentDeps, prevDeps, i + 1,
            IF ~StrictEquals(At(currentDeps, i), At(prevDeps, i))
            THEN Append(unstableIndices, i)
            ELSE unstableIndices)

RECURSIVE unstableIndicesLoop(_, _, _, _)
unstableIndicesLoop(currentDeps, prevDeps, i, unstableIndices) ==
    IF i >= Len(currentDeps) THEN unstableIndices
    ELSE LET current == At(currentDeps, i)
             prev == At(prevDeps, i)
         IN  unstableIndicesLoop(currentDeps, prevDeps, i + 1,
                IF /\ ~StrictEquals(current, prev)
                   /\ typeof(current) = "object"
                   /\ ~StrictEquals(current, Null)
                   /\ typeof(prev) = "object"
                   /\ ~StrictEquals(prev, Null)
                   /\ shallowEqual(current, prev)
                THEN Append(unstableIndices, i)
                ELSE unstableIndices)

\* currentDeps is an array; prevDeps an optional array
detectUnstableDeps(currentDeps, prevDeps) ==
    IF ~__DEV__ \/ ~prevDeps.present THEN <<>>
    ELSE unstableIndicesLoop(currentDeps, prevDeps.items, 0, <<>>)

----------------------------------------------------------------------------
(* depsTracker: formatDepsChanges *)

formatDepsChanges(changes) ==
    IF ~changes.hasChanges THEN "No changes detected."
    ELSE LET lengthPart ==
                 IF changes.lengthChanged
                 THEN <<"Dependency array length changed from "
                        \o (IF changes.prevLength = None THEN "undefined"
                            ELSE ToString(changes.prevLength[1]))
                        \o " to "
                        \o (IF changes.currentLength = None THEN "undefined"
                            ELSE ToString(changes.currentLength[1]))
                        \o ".">>
                 ELSE <<>>
             RECURSIVE Joined(_)
             Joined(indices) ==
                 IF Len(indices) = 0 THEN ""
                 ELSE IF Len(indices) = 1 THEN ToString(indices[1])
                 ELSE ToString(indices[1]) \o ", " \o Joined(Tail(indices))
             indicesPart ==
                 IF Len(changes.changedIndices) > 0
                 THEN <<"Dependencies at indices ["
                        \o Joined(changes.changedIndices) \o "] changed.">>
                 ELSE <<>>
             parts == lengthPart \o indicesPart
         IN  IF Len(parts) = 2 THEN parts[1] \o " " \o parts[2]
             ELSE IF Len(parts) = 1 THEN parts[1]
             ELSE ""

----------------------------------------------------------------------------
(* closureTracker *)

EXCESSIVE_CHANGE_THRESHOLD == 5

isExcessiveCallbackChange_atThreshold(changeCount, renderCount) ==
    IF ~__DEV__ THEN FALSE
    ELSE IF renderCount > 2 /\ changeCount = renderCount THEN TRUE
    ELSE IF changeCount >= EXCESSIVE_CHANGE_THRESHOLD THEN TRUE
    ELSE FALSE

isExcessiveCallbackChange_fromSecondRender(changeCount, renderCount) ==
    IF ~__DEV__ THEN FALSE
    ELSE IF renderCount > 1 /\ changeCount = renderCount THEN TRUE
    ELSE IF changeCount > EXCESSIVE_CHANGE_THRESHOLD THEN TRUE
    ELSE FALSE

isExcessiveCallbackChange(changeCount, renderCount) ==
    IF ~__DEV__ THEN FALSE
    ELSE IF renderCount > 2 /\ changeCount = renderCount THEN TRUE
    ELSE IF changeCount > EXCESSIVE_CHANGE_THRESHOLD THEN TRUE
    ELSE FALSE

RECURSIVE staleLoop_strictEquals(_, _, _)
staleLoop_strictEquals(declaredDeps, prevDeps, i) ==
    IF i >= Len(declaredDeps) THEN [isStale |-> FALSE, description |-> None]
    ELSE IF ~StrictEquals(At(declaredDeps, i), At(prevDeps, i))
         THEN [isStale |-> TRUE,
               description |->
                   Some("Dependency at index " \o ToString(i)
                        \o " changed but callback was not updated. "
                        \o "This may cause the callback to use stale values.")]
         ELSE staleLoop_strictEquals(declaredDeps, prevDeps, i + 1)

RECURSIVE staleLoop(_, _, _)
staleLoop(declaredDeps, prevDeps, i) ==
    IF i >= Len(declaredDeps) THEN [isStale |-> FALSE, description |-> None]
    ELSE IF ~ObjectIs(At(declaredDeps, i), At(prevDeps, i))
         THEN [isStale |-> TRUE,
               description |->
                   Some("Dependency at index " \o ToString(i)
                        \o " changed but callback was not updated. "
                        \o "This may cause the callback to use stale values.")]
         ELSE staleLoop(declaredDeps, prevDeps, i + 1)

detectStaleClosure_ignoresCallbackChanged(declaredDeps, prevDeps, callbackChanged) ==
    IF ~__DEV__ THEN [isStale |-> FALSE, description |-> None]
    ELSE IF prevDeps.present
         THEN staleLoop(declaredDeps, prevDeps.items, 0)
         ELSE [isStale |-> FALSE, description |-> None]

\* declaredDeps is an array; prevDeps an optional array
detectStaleClosure(declaredDeps, prevDeps, callbackChanged) ==
    IF ~__DEV__ THEN [isStale |-> FALSE, description |-> None]
    ELSE IF ~callbackChanged /\ prevDeps.present
         THEN staleLoop(declaredDeps, prevDeps.items, 0)
         ELSE [isStale |-> FALSE, description |-> None]

\* createCallbackTracker(): a fresh tracker
createCallbackTracker ==
    [changeCount |-> 0, prevCallback |-> Undefined, prevDeps |-> Absent]

updateCallbackTracker_alwaysCounts(tracker, currentCallback, currentDeps, renderCount) ==
    LET changeCount == tracker.changeCount + 1
    IN  [tracker |-> [changeCount |-> changeCount,
                      prevCallback |-> currentCallback,
                      prevDeps |-> Present(currentDeps)],
         result |-> [identityChanged |-> TRUE,
                     changeCount |-> changeCount,
                     isExcessive |->
                         isExcessiveCallbackChange(changeCount, renderCount)]]

\* updateCallbackTracker mutates the tracker and returns the stability
\* result: the tracker afterwards and the result
updateCallbackTracker(tracker, currentCallback, currentDeps, renderCount) ==
    LET identityChanged == ~StrictEquals(tracker.prevCallback, currentCallback)
        changeCount == IF identityChanged THEN tracker.changeCount + 1
                       ELSE tracker.changeCount
    IN  [tracker |-> [changeCount |-> changeCount,
                      prevCallback |-> currentCallback,
                      prevDeps |-> Present(currentDeps)],
         result |-> [identityChanged |-> identityChanged,
                     changeCount |-> changeCount,
                     isExcessive |->
                         isExcessiveCallbackChange(changeCount, renderCount)]]

----------------------------------------------------------------------------
(* warn.ts.  The console and the key set travel together as                *)
(* [keys, out]: keys is warnedKeys, out the console.warn calls so far.     *)

RECURSIVE JoinLines(_)
JoinLines(lines) ==
    IF Len(lines) = 0 THEN ""
    ELSE IF Len(lines) = 1 THEN lines[1]
    ELSE lines[1] \o "\n" \o JoinLines(Tail(lines))

\* an optional string is truthy when it is there and not empty
Truthy(opt) == opt # None /\ opt[1] # ""

\* config: [componentName, hookName, message, details, fix], the optional
\* ones as None / Some(text). The first line stands for the source's
\* heading, which opens with a warning sign.
createWarning(config) ==
    JoinLines(
        <<"react-safe-hooks warning:", "">>
        \o (IF Truthy(config.componentName)
            THEN <<"Component: " \o config.componentName[1]>> ELSE <<>>)
        \o <<"Hook: " \o config.hookName, "", config.message>>
        \o (IF Truthy(config.details) THEN <<config.details[1]>> ELSE <<>>)
        \o (IF Truthy(config.fix) THEN <<"", "Fix:", config.fix[1]>> ELSE <<>>))

warnOnce_keyNotRecorded(w, key, message) ==
    IF ~__DEV__ THEN w
    ELSE IF key \in w.keys THEN w
    ELSE [w EXCEPT !.out = Append(@, message)]

warnOnce_replacesKeys(w, key, message) ==
    IF ~__DEV__ THEN w
    ELSE IF key \in w.keys THEN w
    ELSE [w EXCEPT !.keys = {key}, !.out = Append(@, message)]

warnOnce(w, key, message) ==
    IF ~__DEV__ THEN w
    ELSE IF key \in w.keys THEN w
    ELSE [w EXCEPT !.keys = @ \cup {key}, !.out = Append(@, message)]

warn_deduplicated(w, message) ==
    IF ~__DEV__ \/ "warn" \in w.keys THEN w
    ELSE [keys |-> w.keys \cup {"warn"}, out |-> Append(w.out, message)]

warn_ungated(w, message) == [w EXCEPT !.out = Append(@, message)]

warn(w, message) ==
    IF ~__DEV__ THEN w
    ELSE [w EXCEPT !.out = Append(@, message)]

\* componentName: None / Some(text)
createWarningKey_ignoresHookName(hookName, issueType, componentName) ==
    (IF Truthy(componentName) THEN componentName[1] ELSE "Unknown")
        \o ":" \o issueType

createWarningKey_ignoresComponentName(hookName, issueType, componentName) ==
    hookName \o ":" \o issueType

createWarningKey(hookName, issueType, componentName) ==
    (IF Truthy(componentName) THEN componentName[1] ELSE "Unknown")
        \o ":" \o hookName \o ":" \o issueType

clearWarnings(w) == [w EXCEPT !.keys = {}]

\* a warning on its way to the emitter: warnOnce(key, message) or warn(message)
Once(key, message) == [once |-> TRUE, key |-> key, message |-> message]
Always(message) == [once |-> FALSE, key |-> "", message |-> message]

\* the calls of warnOnce and warn an operation makes, in order
RECURSIVE Dispatch(_, _)
Dispatch(w, requests) ==
    IF requests = <<>> THEN w
    ELSE Dispatch(IF Head(requests).once
                  THEN warnOnce(w, Head(requests).key, Head(requests).message)
                  ELSE warn(w, Head(requests).message),
                  Tail(requests))

----------------------------------------------------------------------------
(* React primitives the wrappers call *)

\* areHookInputsEqual: Object.is at every index both lists have
RECURSIVE areHookInputsEqual(_, _, _)
areHookInputsEqual(nextDeps, prevDeps, i) ==
    IF i >= Len(prevDeps) \/ i >= Len(nextDeps) THEN TRUE
    ELSE IF ObjectIs(At(nextDeps, i), At(prevDeps, i))
         THEN areHookInputsEqual(nextDeps, prevDeps, i + 1)
         ELSE FALSE

\* useCallback(callback, deps) on the hook's memoized [callback, deps]:
\* the stored callback while the inputs are equal, else the new one
NoMemo == [has |-> FALSE, cb |-> Undefined, deps |-> <<>>]

useCallback(memo, callback, deps) ==
    IF memo.has /\ areHookInputsEqual(deps, memo.deps, 0)
    THEN memo
    ELSE [has |-> TRUE, cb |-> callback, deps |-> deps]

----------------------------------------------------------------------------
(* componentName.ts: the refs behind usePrevious and useRenderCount are    *)
(* fields of the call-site's state                                         *)

\* useRenderCount: countRef.current += 1; return countRef.current
useRenderCount_countsTwice(countRef) == countRef + 2

useRenderCount_countsFirstOnly(countRef) == IF countRef = 0 THEN 1 ELSE countRef

useRenderCount(countRef) == countRef + 1

----------------------------------------------------------------------------
(* useSafeCallback *)

\* a call-site before its first render
NewSite ==
    [memo |-> NoMemo,              \* useCallback's memoized state
     componentName |-> "Unknown",  \* what useComponentName finds on the stack
     renderCount |-> 0,            \* useRenderCount's countRef
     previous |-> Absent,          \* usePrevious' ref.current
     effectPending |-> FALSE,      \* usePrevious' effect is yet to run
     pendingValue |-> Absent,      \*   and the value it will store
     prevCallback |-> Undefined,   \* prevCallbackRef.current
     changeCount |-> 0]            \* changeCountRef.current

DefaultOptions == [name |-> None, warnOnStaleClosure |-> None]

\* a ?? b on an optional
OrElse(opt, default) == IF opt = None THEN default ELSE opt[1]

RECURSIVE JoinIndices(_)
JoinIndices(indices) ==
    IF Len(indices) = 0 THEN ""
    ELSE IF Len(indices) = 1 THEN ToString(indices[1])
    ELSE ToString(indices[1]) \o ", " \o JoinIndices(Tail(indices))

\* one render of useSafeCallback(callback, deps, options) at a call-site in
\* state st, where useComponentName answers componentName:
\* the call-site's next state and the warnOnce calls made, in order
useSafeCallback(st, callback, deps, options, componentName) ==
    LET memo == useCallback(st.memo, callback, deps)
        memoizedCallback == memo.cb
    IN
    IF ~__DEV__
    THEN [st |-> [st EXCEPT !.memo = memo],
          returns |-> memoizedCallback,
          requests |-> <<>>]
    ELSE
    LET hookName == OrElse(options.name, "useSafeCallback")
        renderCount == useRenderCount(st.renderCount)
        prevDeps == st.previous
        warnOnStaleClosure == OrElse(options.warnOnStaleClosure, TRUE)
        identityChanged == ~StrictEquals(st.prevCallback, memoizedCallback)
        changeCount == IF identityChanged THEN st.changeCount + 1
                       ELSE st.changeCount
        prevCallback == IF identityChanged THEN memoizedCallback
                        ELSE st.prevCallback
        staleResult == detectStaleClosure(deps, prevDeps, changeCount > 1)
        stale ==
            IF warnOnStaleClosure /\ prevDeps.present /\ staleResult.isStale
            THEN <<Once(createWarningKey(hookName, "stale-closure",
                                         Some(componentName)),
                        createWarning(
                            [componentName |-> Some(componentName),
                             hookName |-> hookName,
                             message |-> "Potential stale closure detected.",
                             details |-> staleResult.description,
                             fix |-> Some("Make sure all values used inside the callback are included in the "
                                          \o "dependency array. If you're intentionally using stale values, "
                                          \o "consider using a ref instead.")]))>>
            ELSE <<>>
        unstableIndices == detectUnstableDeps(deps, prevDeps)
        unstable ==
            IF prevDeps.present /\ Len(unstableIndices) > 0 /\ renderCount > 2
            THEN <<Once(createWarningKey(hookName, "unstable-deps",
                                         Some(componentName)),
                        createWarning(
                            [componentName |-> Some(componentName),
                             hookName |-> hookName,
                             message |-> "Potentially unstable dependencies detected.",
                             details |-> Some("Dependencies at indices ["
                                              \o JoinIndices(unstableIndices)
                                              \o "] appear to be "
                                              \o "recreated on every render despite having the same content."),
                             fix |-> Some("Memoize objects, arrays, or callbacks in dependencies with useMemo/useCallback, "
                                          \o "or move them outside the component if they don't depend on props/state.")]))>>
            ELSE <<>>
        excessive ==
            IF isExcessiveCallbackChange(changeCount, renderCount)
            THEN <<Once(createWarningKey(hookName, "excessive-changes",
                                         Some(componentName)),
                        createWarning(
                            [componentName |-> Some(componentName),
                             hookName |-> hookName,
                             message |-> "Callback is changing too frequently.",
                             details |-> Some("The callback has changed "
                                              \o ToString(changeCount)
                                              \o " times in "
                                              \o ToString(renderCount)
                                              \o " renders. "
                                              \o "This defeats the purpose of memoization and may cause unnecessary re-renders in child components."),
                             fix |-> Some("Check that all dependencies are stable. Avoid inline object/array/function "
                                          \o "literals in the dependency array. Consider if memoization is even needed.")]))>>
            ELSE <<>>
    IN  [st |-> [st EXCEPT !.memo = memo,
                           !.componentName = componentName,
                           !.renderCount = renderCount,
                           !.effectPending = TRUE,
                           !.pendingValue = Present(deps),
                           !.prevCallback = prevCallback,
                           !.changeCount = changeCount],
         returns |-> memoizedCallback,
         requests |-> stale \o unstable \o excessive]

usePreviousEffect_keepsFirst(st) ==
    [st EXCEPT !.previous = IF st.previous.present THEN st.previous
                            ELSE st.pendingValue,
               !.effectPending = FALSE]

usePreviousEffect_skipsUndefined(st) ==
    [st EXCEPT !.previous = IF st.pendingValue.present THEN st.pendingValue
                            ELSE st.previous,
               !.effectPending = FALSE]

\* usePrevious' effect: ref.current = value
usePreviousEffect(st) ==
    [st EXCEPT !.previous = st.pendingValue, !.effectPending = FALSE]

----------------------------------------------------------------------------
(* useSafeMemo *)

DEFAULT_RECOMPUTE_THRESHOLD == 10

\* factory(): what the factory computes
ResultOf(factory) == IF factory = Fn("f1") THEN Num("1") ELSE NaN

NoMemoValue == [has |-> FALSE, value |-> Undefined, deps |-> <<>>]

\* useMemo(factory, deps) on the hook's memoized [value, deps]: the stored
\* value while the inputs are equal, else the factory runs
useMemoRuns(memo, deps) == ~(memo.has /\ areHookInputsEqual(deps, memo.deps, 0))

useMemo(memo, factory, deps) ==
    IF useMemoRuns(memo, deps)
    THEN [has |-> TRUE, value |-> ResultOf(factory), deps |-> deps]
    ELSE memo

NewMemoSite ==
    [memo |-> NoMemoValue,
     componentName |-> "Unknown",
     renderCount |-> 0,
     previous |-> Absent,
     effectPending |-> FALSE,
     pendingValue |-> Absent,
     recomputeCount |-> 0]         \* recomputeCountRef.current

DefaultMemoOptions ==
    [name |-> None, warnOnRecompute |-> None, recomputeThreshold |-> None]

\* a length, or "undefined", inside a template literal
LengthText(opt) == IF opt = None THEN "undefined" ELSE ToString(opt[1])

isExcessiveRecompute_ignoresRenderCount(warnOnRecompute, recomputeCount, recomputeThreshold, renderCount) ==
    /\ warnOnRecompute
    /\ recomputeCount > recomputeThreshold

\* the test inside wrappedFactory, after the count was incremented
isExcessiveRecompute(warnOnRecompute, recomputeCount, recomputeThreshold, renderCount) ==
    /\ warnOnRecompute
    /\ recomputeCount > recomputeThreshold
    /\ recomputeCount = renderCount

\* one render of useSafeMemo(factory, deps, options)
useSafeMemo(st, factory, deps, options, componentName) ==
    IF ~__DEV__
    THEN LET memo == useMemo(st.memo, factory, deps)
         IN  [st |-> [st EXCEPT !.memo = memo],
              returns |-> memo.value,
              requests |-> <<>>,
              factoryRan |-> useMemoRuns(st.memo, deps)]
    ELSE
    LET hookName == OrElse(options.name, "useSafeMemo")
        renderCount == useRenderCount(st.renderCount)
        prevDeps == st.previous
        warnOnRecompute == OrElse(options.warnOnRecompute, TRUE)
        recomputeThreshold ==
            OrElse(options.recomputeThreshold, DEFAULT_RECOMPUTE_THRESHOLD)
        changes == trackDependencyChanges(Present(deps), prevDeps)
        depsLength ==
            IF prevDeps.present /\ changes.lengthChanged
            THEN <<Once(createWarningKey(hookName, "deps-length",
                                         Some(componentName)),
                        createWarning(
                            [componentName |-> Some(componentName),
                             hookName |-> hookName,
                             message |-> "Dependency array length changed between renders.",
                             details |-> Some("Length changed from "
                                              \o LengthText(changes.prevLength)
                                              \o " to "
                                              \o LengthText(changes.currentLength)
                                              \o "."),
                             fix |-> Some("Ensure your dependency array has a stable length. "
                                          \o "Conditional dependencies should be handled inside the factory, not in the array.")]))>>
            ELSE <<>>
        unstableIndices == detectUnstableDeps(deps, prevDeps)
        unstable ==
            IF prevDeps.present /\ Len(unstableIndices) > 0 /\ renderCount > 2
            THEN <<Once(createWarningKey(hookName, "unstable-deps",
                                         Some(componentName)),
                        createWarning(
                            [componentName |-> Some(componentName),
                             hookName |-> hookName,
                             message |-> "Potentially unstable dependencies detected.",
                             details |-> Some("Dependencies at indices ["
                                              \o JoinIndices(unstableIndices)
                                              \o "] appear to be "
                                              \o "recreated on every render despite having the same content."),
                             fix |-> Some("Memoize objects, arrays, or callbacks with useMemo/useCallback, "
                                          \o "or move them outside the component if they don't depend on props/state.")]))>>
            ELSE <<>>
        runs == useMemoRuns(st.memo, deps)
        recomputeCount == IF runs THEN st.recomputeCount + 1
                          ELSE st.recomputeCount
        excessive ==
            IF runs /\ isExcessiveRecompute(warnOnRecompute, recomputeCount,
                                            recomputeThreshold, renderCount)
            THEN <<Once(createWarningKey(hookName, "excessive-recompute",
                                         Some(componentName)),
                        createWarning(
                            [componentName |-> Some(componentName),
                             hookName |-> hookName,
                             message |-> "Memoized value is recomputing on every render.",
                             details |-> Some("The factory has been called "
                                              \o ToString(recomputeCount)
                                              \o " times in "
                                              \o ToString(renderCount)
                                              \o " renders. This defeats the purpose of memoization."),
                             fix |-> Some("Check that your dependencies are stable. Avoid inline object/array/function "
                                          \o "literals in the dependency array. If recomputation is intentional, "
                                          \o "set warnOnRecompute: false or increase recomputeThreshold.")]))>>
            ELSE <<>>
        memo == useMemo(st.memo, factory, deps)
    IN  [st |-> [st EXCEPT !.memo = memo,
                           !.componentName = componentName,
                           !.renderCount = renderCount,
                           !.effectPending = TRUE,
                           !.pendingValue = Present(deps),
                           !.recomputeCount = recomputeCount],
         returns |-> memo.value,
         requests |-> depsLength \o unstable \o excessive,
         factoryRan |-> runs]

----------------------------------------------------------------------------
(* useSafeRef *)

\* useRef before the first render
NoRef == [has |-> FALSE, current |-> Undefined]

NewRefSite ==
    [ref |-> NoRef,                \* useRef's object
     componentName |-> "Unknown",
     renderCount |-> 0,
     effectPending |-> FALSE]      \* the hook has no effects

\* React: the object of the first render, whatever later renders pass
useRef(ref, initialValue) ==
    IF ref.has THEN ref ELSE [has |-> TRUE, current |-> initialValue]

\* one render of useSafeRef(initialValue, options)
useSafeRef(st, initialValue, options, componentName) ==
    LET ref == useRef(st.ref, initialValue)
    IN
    IF ~__DEV__
    THEN [st |-> [st EXCEPT !.ref = ref],
          returns |-> ref,
          requests |-> <<>>]
    ELSE
    LET hookName == OrElse(options.name, "useSafeRef")
        renderCount == useRenderCount(st.renderCount)
        warnOnNullInit == OrElse(options.warnOnNullInit, FALSE)
        nullInit ==
            IF /\ warnOnNullInit
               /\ renderCount = 1
               /\ initialValue \in {Null, Undefined}
            THEN <<Once(createWarningKey(hookName, "null-init",
                                         Some(componentName)),
                        createWarning(
                            [componentName |-> Some(componentName),
                             hookName |-> hookName,
                             message |-> "Ref initialized with null or undefined.",
                             details |-> Some("This is usually fine for DOM refs, but may indicate a bug for other uses."),
                             fix |-> Some("If intentional, disable this warning with warnOnNullInit: false. "
                                          \o "Otherwise, provide an initial value.")]))>>
            ELSE <<>>
    IN  [st |-> [st EXCEPT !.ref = ref,
                           !.componentName = componentName,
                           !.renderCount = renderCount],
         returns |-> ref,
         requests |-> nullInit]

----------------------------------------------------------------------------
(* useSafeEffect and useSafeLayoutEffect.  Both hooks run the same          *)
(* diagnostics; they differ in their default name, in the text of the      *)
(* no-deps warning and in the phase their effect runs in.                  *)

\* useEffect / useLayoutEffect state of the wrapped effect, before mount
NoEffect == [has |-> FALSE, deps |-> Absent]

\* a call-site of hook `kind` before its first render
NewEffectSite(kind) ==
    [kind |-> kind,
     componentName |-> "Unknown",
     renderCount |-> 0,
     previous |-> Absent,          \* usePrevious' ref.current
     effectPending |-> FALSE,      \* the commit's effects are yet to run
     pendingValue |-> Absent,      \*   and the deps the render was given
     isMounted |-> TRUE,           \* isMountedRef.current
     mountEffectRan |-> FALSE,     \* the [] effect has run
     effectDeps |-> NoEffect,      \* deps of the wrapped effect, last render
     runPending |-> FALSE,         \* the wrapped effect is to run at commit
     active |-> FALSE,             \* the effect ran; its cleanup is due
     mounted |-> TRUE,             \* the component is in the tree
     effect |-> Undefined,         \* what effect() of the latest render returns
     cleanup |-> Undefined,        \* const cleanup of the latest run
     ranEffect |-> FALSE,          \* the latest commit called effect()
     cleanupCalled |-> FALSE,      \* the latest commit or unmount called
                                   \*   cleanup()
     canUseDOM |-> FALSE,          \* useSafeLayoutEffect's canUseDOM
     layoutPending |-> FALSE,      \* the commit's layout effect is yet to run
     cleanupPending |-> FALSE]     \* the component has left the tree, the
                                   \*   cleanups of its passive effects are
                                   \*   yet to run

DefaultEffectOptions ==
    [name |-> None, warnOnMissingDeps |-> None, warnOnChangingDeps |-> None]

\* React: the effect runs on mount, when deps is omitted, and when an input
\* differs from the render before
effectRuns_everyRender(effectDeps, deps) == TRUE

effectRuns(effectDeps, deps) ==
    \/ ~effectDeps.has
    \/ ~deps.present
    \/ ~effectDeps.deps.present
    \/ ~areHookInputsEqual(deps.items, effectDeps.deps.items, 0)

noDepsWarning_everyRender(deps, warnOnMissingDeps, renderCount) ==
    ~deps.present /\ warnOnMissingDeps

\* deps === undefined && warnOnMissingDeps && renderCount === 1
noDepsWarning(deps, warnOnMissingDeps, renderCount) ==
    ~deps.present /\ warnOnMissingDeps /\ renderCount = 1

\* canUseDOM ? useLayoutEffect : useEffect - whether the wrapped effect is a
\* layout effect; useSafeEffect's is always passive
useIsomorphicLayoutEffect(kind, st) ==
    kind = "useSafeLayoutEffect" /\ st.canUseDOM

\* one render of the hook `kind` with (effect, deps, options); deps is an
\* optional list
effectHook(kind, st, effect, deps, options, componentName) ==
    IF ~__DEV__
    THEN [st |-> [st EXCEPT !.effectDeps = [has |-> TRUE, deps |-> deps],
                            !.effect = effect,
                            !.ranEffect = FALSE,
                            !.cleanupCalled = FALSE,
                            !.runPending = effectRuns(st.effectDeps, deps),
                            !.layoutPending = useIsomorphicLayoutEffect(kind, st),
                            !.effectPending = TRUE],
          prevDeps |-> Absent,
          changes |-> trackNoChange,
          requests |-> <<>>]
    ELSE
    LET hookName == OrElse(options.name, kind)
        renderCount == useRenderCount(st.renderCount)
        prevDeps == st.previous
        warnOnMissingDeps == OrElse(options.warnOnMissingDeps, TRUE)
        warnOnChangingDeps == OrElse(options.warnOnChangingDeps, TRUE)
        noDeps ==
            IF noDepsWarning(deps, warnOnMissingDeps, renderCount)
            THEN <<Once(createWarningKey(hookName, "no-deps",
                                         Some(componentName)),
                        createWarning(
                            [componentName |-> Some(componentName),
                             hookName |-> hookName,
                             message |-> IF kind = "useSafeEffect"
                                         THEN "Effect has no dependency array."
                                         ELSE "Layout effect has no dependency array.",
                             details |-> Some(
                                 IF kind = "useSafeEffect"
                                 THEN "This effect will run after every render, which may cause performance issues."
                                 ELSE "This effect will run after every render, which may cause performance issues "
                                      \o "and layout thrashing."),
                             fix |-> Some("Add a dependency array. Use [] for effects that should only run once, "
                                          \o "or list all values from the component scope that the effect uses.")]))>>
            ELSE <<>>
        checked == warnOnChangingDeps /\ prevDeps.present /\ deps.present
        changes == trackDependencyChanges(deps, prevDeps)
        lengthChange ==
            IF checked /\ changes.lengthChanged
            THEN <<Always(createWarning(
                            [componentName |-> Some(componentName),
                             hookName |-> hookName,
                             message |-> "Dependency array length changed between renders.",
                             details |-> Some(formatDepsChanges(changes)),
                             fix |-> Some("Ensure your dependency array has a stable length. "
                                          \o "Conditional dependencies should be handled inside the effect, not in the array.")]))>>
            ELSE <<>>
        unstableIndices ==
            IF checked THEN detectUnstableDeps(deps.items, prevDeps) ELSE <<>>
        unstable ==
            IF checked /\ Len(unstableIndices) > 0 /\ renderCount > 2
            THEN <<Once(createWarningKey(hookName, "unstable-deps",
                                         Some(componentName)),
                        createWarning(
                            [componentName |-> Some(componentName),
                             hookName |-> hookName,
                             message |-> "Potentially unstable dependencies detected.",
                             details |-> Some("Dependencies at indices ["
                                              \o JoinIndices(unstableIndices)
                                              \o "] appear to be "
                                              \o "recreated on every render despite having the same content."),
                             fix |-> Some("Memoize objects, arrays, or callbacks with useMemo/useCallback, "
                                          \o "or move them outside the component if they don't depend on props/state.")]))>>
            ELSE <<>>
    IN  [st |-> [st EXCEPT !.componentName = componentName,
                           !.renderCount = renderCount,
                           !.effectPending = TRUE,
                           !.pendingValue = deps,
                           !.effectDeps = [has |-> TRUE, deps |-> deps],
                           !.effect = effect,
                           !.ranEffect = FALSE,
                           !.cleanupCalled = FALSE,
                           !.runPending = effectRuns(st.effectDeps, deps),
                           !.layoutPending = useIsomorphicLayoutEffect(kind, st)],
         prevDeps |-> prevDeps,
         changes |-> IF checked THEN changes ELSE trackNoChange,
         requests |-> noDeps \o lengthChange \o unstable]

useSafeEffect(st, effect, deps, options, componentName) ==
    effectHook("useSafeEffect", st, effect, deps, options, componentName)

useSafeLayoutEffect(st, effect, deps, options, componentName) ==
    effectHook("useSafeLayoutEffect", st, effect, deps, options, componentName)

\* the wrapped effect of a commit: when it is to run, the cleanup the run
\* before returned and then the body
wrappedEffect(st) ==
    [st EXCEPT !.isMounted = IF st.runPending /\ st.active /\ __DEV__
                             THEN FALSE ELSE @,
               !.active = @ \/ st.runPending,
               !.runPending = FALSE,
               !.ranEffect = st.runPending,
               !.cleanupCalled = /\ st.runPending
                                 /\ st.active
                                 /\ typeof(st.cleanup) = "function",
               !.cleanup = IF st.runPending THEN st.effect ELSE @]

\* the hook's own passive effects: usePrevious' effect, and on mount the []
\* effect
passiveEffects(st) ==
    LET stored == IF __DEV__ THEN usePreviousEffect(st)
                  ELSE [st EXCEPT !.effectPending = FALSE]
    IN  IF __DEV__ /\ ~stored.mountEffectRan
        THEN [stored EXCEPT !.isMounted = TRUE, !.mountEffectRan = TRUE]
        ELSE stored

\* React's layout phase, with a DOM: the wrapped effect of
\* useSafeLayoutEffect runs, the passive effects are still to come; the
\* production hook has no passive effects
layoutEffects(st) ==
    [wrappedEffect(st) EXCEPT !.layoutPending = FALSE,
                              !.effectPending = __DEV__]

\* React runs the passive effects of a commit: the hook's own, and the
\* wrapped effect unless it ran in the layout phase
commitEffects(st) ==
    IF useIsomorphicLayoutEffect(st.kind, st)
    THEN passiveEffects(st)
    ELSE passiveEffects(wrappedEffect(st))

\* React removes the component from the tree: the cleanup of a layout effect
\* runs in that commit, the cleanups of the passive effects are scheduled
removeEffects(st) ==
    IF useIsomorphicLayoutEffect(st.kind, st)
    THEN [st EXCEPT !.mounted = FALSE,
                    !.isMounted = IF __DEV__ /\ st.active THEN FALSE ELSE @,
                    !.active = FALSE,
                    !.ranEffect = FALSE,
                    !.cleanupCalled = st.active
                                         /\ typeof(st.cleanup) = "function",
                    !.cleanup = Undefined,
                    !.cleanupPending = __DEV__]
    ELSE [st EXCEPT !.mounted = FALSE,
                    !.ranEffect = FALSE,
                    !.cleanupCalled = FALSE,
                    !.cleanupPending = TRUE]

\* the cleanups of the passive effects of a component that has left the tree:
\* the [] effect's, and the wrapped effect's unless it was a layout effect
unmountEffects(st) ==
    [st EXCEPT !.isMounted = IF __DEV__ /\ (st.mountEffectRan \/ st.active)
                             THEN FALSE ELSE @,
               !.active = FALSE,
               !.cleanupCalled = @ \/ (st.active
                                          /\ typeof(st.cleanup) = "function"),
               !.cleanup = Undefined,
               !.cleanupPending = FALSE]

----------------------------------------------------------------------------
(* useSafeState, useSafeReducer, useIsMounted, useSafeContext.  A call-site *)
(* holds the hook's refs, the state of the React primitive under it, and    *)
(* two histories: `called`, the arguments its returned function was called  *)
(* with, and `forwarded`, the arguments that reached the primitive.         *)

\* useState / useReducer before the first render
NoPrimitive == [has |-> FALSE, state |-> 0, queue |-> <<>>]

\* the reducer of the component: "toggle" flips the state, any other action
\* resets it
reducer(state, action) ==
    IF action.hasType /\ action.type = "toggle" THEN 1 - state ELSE 0

RECURSIVE reduceQueue(_, _)
reduceQueue(state, queue) ==
    IF queue = <<>> THEN state
    ELSE reduceQueue(reducer(state, Head(queue)), Tail(queue))

\* useState(initialState): the state of this render
useState(prim, initialState) ==
    IF ~prim.has THEN [has |-> TRUE, state |-> initialState, queue |-> <<>>]
    ELSE [prim EXCEPT !.state = IF prim.queue = <<>> THEN @
                                ELSE prim.queue[Len(prim.queue)],
                      !.queue = <<>>]

\* useReducer(reducer, initialArg): the state of this render
useReducer(prim, initialArg) ==
    IF ~prim.has THEN [has |-> TRUE, state |-> initialArg, queue |-> <<>>]
    ELSE [prim EXCEPT !.state = reduceQueue(prim.state, prim.queue),
                      !.queue = <<>>]

\* a call-site of hook `kind` before its first render
NewLifeSite_startsMounted(kind) ==
    [kind |-> kind,
     componentName |-> "Unknown",
     renders |-> 0,
     mounted |-> TRUE,
     effectPending |-> FALSE,
     isMounted |-> TRUE,
     cleanupPending |-> FALSE,
     closures |-> {},
     prim |-> NoPrimitive,
     memo |-> NoMemo,
     called |-> <<>>,
     forwarded |-> <<>>]

NewLifeSite(kind) ==
    [kind |-> kind,
     componentName |-> "Unknown",
     renders |-> 0,                \* renders so far
     mounted |-> TRUE,             \* the component is in the tree
     effectPending |-> FALSE,      \* the mount effect is yet to run
     isMounted |-> kind # "useIsMounted",
                                   \* isMountedRef.current: useRef(true), and
                                   \* useRef(false) in useIsMounted
     cleanupPending |-> FALSE,     \* the component has left the tree, the
                                   \* mount effect's cleanup is yet to run
     closures |-> {},              \* the functions the renders have returned,
                                   \* each with the names it closes over
     prim |-> NoPrimitive,         \* useState / useReducer
     memo |-> NoMemo,              \* useCallback of the returned function
     called |-> <<>>,
     forwarded |-> <<>>]

\* the function a render creates, and React's own setState / dispatch
Closure(st) == Fn("render" \o ToString(st.renders + 1))
NativeDispatch == Fn("native")

\* a function a render returned: (value) => {...} closing over componentName
\* and hookName of the render that created it
Returned(cb, componentName, hookName) ==
    [cb |-> cb, componentName |-> componentName, hookName |-> hookName]

\* setState(value) / dispatch(action) of React: queued while the component
\* is in the tree, ignored afterwards
forward(st, update) ==
    [st EXCEPT !.forwarded = Append(@, update),
               !.prim.queue = IF st.mounted THEN Append(@, update) ELSE @]

useSafeState(st, initialState, options, componentName) ==
    LET prim == useState(st.prim, initialState)
    IN  IF ~__DEV__
        THEN [st |-> [st EXCEPT !.prim = prim,
                                    !.renders = @ + 1,
                                    !.closures =
                                        {Returned(NativeDispatch, "", "")}],
              returns |-> [state |-> prim.state, fn |-> NativeDispatch],
              threw |-> FALSE,
              requests |-> <<>>]
        ELSE LET hookName == OrElse(options.name, "useSafeState")
                 memo == useCallback(st.memo, Closure(st),
                                     <<componentName, hookName>>)
             IN  [st |-> [st EXCEPT !.prim = prim,
                                    !.renders = @ + 1,
                                    !.componentName = componentName,
                                    !.closures =
                                        @ \cup {Returned(memo.cb, componentName,
                                                         hookName)},
                                    !.effectPending = (st.renders = 0),
                                    !.memo = memo],
                  returns |-> [state |-> prim.state, fn |-> memo.cb],
                  threw |-> FALSE,
                  requests |-> <<>>]

safeSetState_forwardsAlways(st, fn, value) ==
    [st |-> forward(st, value), requests |-> <<>>]

\* fn, a setter a render of useSafeState returned, is called with value
safeSetState(st, fn, value) ==
    IF ~__DEV__ THEN [st |-> forward(st, value), requests |-> <<>>]
    ELSE IF ~st.isMounted
    THEN [st |-> st,
          requests |->
              <<Always(createWarning(
                  [componentName |-> Some(fn.componentName),
                   hookName |-> fn.hookName,
                   message |-> "Attempted to update state after component unmounted.",
                   details |-> Some("This usually happens when an async operation completes after "
                                    \o "the component has already been removed from the DOM."),
                   fix |-> Some("Use useIsMounted() to check if the component is still mounted "
                                \o "before calling setState, or cancel the async operation in a cleanup function.")]))>>]
    ELSE [st |-> forward(st, value), requests |-> <<>>]

useSafeReducer(st, initialArg, options, componentName) ==
    LET prim == useReducer(st.prim, initialArg)
    IN  IF ~__DEV__
        THEN [st |-> [st EXCEPT !.prim = prim,
                                    !.renders = @ + 1,
                                    !.closures =
                                        {Returned(NativeDispatch, "", "")}],
              returns |-> [state |-> prim.state, fn |-> NativeDispatch],
              threw |-> FALSE,
              requests |-> <<>>]
        ELSE LET hookName == OrElse(options.name, "useSafeReducer")
                 memo == useCallback(st.memo, Closure(st),
                                     <<componentName, hookName>>)
             IN  [st |-> [st EXCEPT !.prim = prim,
                                    !.renders = @ + 1,
                                    !.componentName = componentName,
                                    !.closures =
                                        @ \cup {Returned(memo.cb, componentName,
                                                         hookName)},
                                    !.effectPending = (st.renders = 0),
                                    !.memo = memo],
                  returns |-> [state |-> prim.state, fn |-> memo.cb],
                  threw |-> FALSE,
                  requests |-> <<>>]

\* fn, a dispatch a render of useSafeReducer returned, is called with action
safeDispatch(st, fn, action) ==
    IF ~__DEV__ THEN [st |-> forward(st, action), requests |-> <<>>]
    ELSE IF ~st.isMounted
    THEN [st |-> st,
          requests |->
              <<Always(createWarning(
                  [componentName |-> Some(fn.componentName),
                   hookName |-> fn.hookName,
                   message |-> "Attempted to dispatch action after component unmounted.",
                   details |-> Some("Action type: "
                                    \o (IF action.hasType THEN action.type
                                        ELSE "unknown")
                                    \o ". "
                                    \o "This usually happens when an async operation completes after "
                                    \o "the component has been removed from the DOM."),
                   fix |-> Some("Use useIsMounted() to check if the component is still mounted "
                                \o "before dispatching, or cancel the async operation in a cleanup function.")]))>>]
    ELSE [st |-> forward(st, action), requests |-> <<>>]

\* useIsMounted(): the stable callback that reads the ref
useIsMounted(st) ==
    LET memo == useCallback(st.memo, Closure(st), <<>>)
    IN  [st |-> [st EXCEPT !.renders = @ + 1,
                           !.effectPending = (st.renders = 0),
                           !.memo = memo],
         returns |-> [state |-> 0, fn |-> memo.cb],
         threw |-> FALSE,
         requests |-> <<>>]

\* () => isMountedRef.current
isMounted(st) == st.isMounted

useSafeContext_warnsAndThrows(st, value, options, componentName) ==
    IF ~__DEV__
    THEN [st |-> [st EXCEPT !.renders = @ + 1],
          returns |-> [state |-> value, fn |-> Undefined],
          threw |-> FALSE,
          requests |-> <<>>]
    ELSE [st |-> [st EXCEPT !.renders = @ + 1,
                            !.componentName = componentName,
                            !.mounted = ~(StrictEquals(value, Undefined)
                                          /\ OrElse(options.throwOnMissing, FALSE))],
          returns |-> [state |-> value, fn |-> Undefined],
          threw |-> StrictEquals(value, Undefined)
                        /\ OrElse(options.throwOnMissing, FALSE),
          requests |-> IF StrictEquals(value, Undefined)
                       THEN <<Always("Context value is undefined.")>>
                       ELSE <<>>]

\* one render of useSafeContext(context, options), where useContext answers
\* value; a render that throws takes the component out of the tree
useSafeContext(st, value, options, componentName) ==
    IF ~__DEV__
    THEN [st |-> [st EXCEPT !.renders = @ + 1],
          returns |-> [state |-> value, fn |-> Undefined],
          threw |-> FALSE,
          requests |-> <<>>]
    ELSE
    LET hookName == OrElse(options.name, "useSafeContext")
        throwOnMissing == OrElse(options.throwOnMissing, FALSE)
        message == createWarning(
            [componentName |-> Some(componentName),
             hookName |-> hookName,
             message |-> "Context value is undefined. This usually means the component is not wrapped in a Provider.",
             details |-> Some("Make sure the component that uses this context is a descendant of the corresponding Provider."),
             fix |-> Some("Wrap your component tree with the appropriate context provider, "
                          \o "or check that you're importing the correct context.")])
        missing == StrictEquals(value, Undefined)
    IN  IF missing /\ throwOnMissing
        THEN [st |-> [st EXCEPT !.renders = @ + 1,
                                !.componentName = componentName,
                                !.mounted = FALSE],
              returns |-> [state |-> Undefined, fn |-> Undefined],
              threw |-> TRUE,
              requests |-> <<>>]
        ELSE [st |-> [st EXCEPT !.renders = @ + 1,
                                !.componentName = componentName],
              returns |-> [state |-> value, fn |-> Undefined],
              threw |-> FALSE,
              requests |-> IF missing THEN <<Always(message)>> ELSE <<>>]

\* the mount effect: isMountedRef.current = true
mountEffect(st) == [st EXCEPT !.isMounted = TRUE, !.effectPending = FALSE]

\* the hook registered the mount effect
hasMountEffect(st) ==
    st.kind = "useIsMounted" \/ (__DEV__ /\ st.kind # "useSafeContext")

\* React removes the component from the tree; the cleanups of its passive
\* effects are scheduled
unmount(st) ==
    [st EXCEPT !.mounted = FALSE, !.cleanupPending = hasMountEffect(st)]

\* the mount effect's cleanup: isMountedRef.current = false
unmountCleanup(st) ==
    [st EXCEPT !.cleanupPending = FALSE,
               !.isMounted = IF st.kind = "useIsMounted"
                                \/ (__DEV__ /\ st.kind # "useSafeContext")
                             THEN FALSE ELSE @]

----------------------------------------------------------------------------
(* Input domains of the runs that call the pure functions *)

Envs == {"development", "production"}

NoCall == [fn |-> "none"]

\* a call of fn(a, b): its result, the flag it ran under, and for the
\* repeated call the first result and every flag value it has run under
Invoke(fn, a, b, ret) ==
    [fn |-> fn, a |-> a, b |-> b, ret |-> ret, flag |-> __DEV__,
     ret0 |-> ret, flags |-> {__DEV__}]

ListsOver(values, maxLen) == UNION {[1 .. n -> values] : n \in 0 .. maxLen}

\* values given to shallowEqual
EqValues ==
    {Undefined, Null, NaN, PlusZero, MinusZero, Num("1"), Fn("f1"), Fn("f2")}
        \cup {Obj(o) : o \in ObjIds}

\* property values and keys of the objects on the comparator's heap
PropValues == {Num("1"), Obj("o3"), Obj("o4")}
LiteralKeys == {"x", "length"}

ObjectShapes ==
    UNION {{ObjectLiteral(S, f) : f \in [S -> PropValues]} : S \in SUBSET LiteralKeys}
ArrayShapes == {ArrayLiteral(items) : items \in ListsOver(PropValues, MaxArrayLen)}
Shapes == ObjectShapes \cup ArrayShapes

\* o3 and o4: two distinct objects, both {x: 1}
LeafObject == ObjectLiteral({"x"}, [k \in {"x"} |-> Num("1")])

\* values of a dependency list
DepValues == {Undefined, NaN, Obj("o1"), Obj("o2"), Obj("o3")}
DepLists == ListsOver(DepValues, MaxLen)
OptDepLists == {Absent} \cup {Present(l) : l \in DepLists}

InitIdle ==
    /\ call = NoCall
    /\ warnedKeys = {}
    /\ emitted = <<>>
    /\ passed = <<>>
    /\ seenBefore = {}
    /\ lastOp = [op |-> "load", tracked |-> FALSE]
    /\ site = <<>>

idleVars == <<warnedKeys, emitted, passed, seenBefore, lastOp, site>>

----------------------------------------------------------------------------
(* Calls of the pure functions: a run makes one call, and may repeat it *)

CallShallowEqual(a, b) ==
    /\ call.fn = "none"
    /\ call' = Invoke("shallowEqual", a, b, shallowEqual(a, b))
    /\ UNCHANGED <<nodeEnv, loadedEnv, heap, idleVars>>

CallTrackDependencyChanges(currentDeps, prevDeps) ==
    /\ call.fn = "none"
    /\ call' = Invoke("trackDependencyChanges", currentDeps, prevDeps,
                      trackDependencyChanges(currentDeps, prevDeps))
    /\ UNCHANGED <<nodeEnv, loadedEnv, heap, idleVars>>

\* detectDepsLengthChange(currentDeps, prevDeps) and
\* trackDependencyChanges(currentDeps, prevDeps) are called
\* on the same arguments
CallLengthAndChanges(currentDeps, prevDeps) ==
    /\ call.fn = "none"
    /\ call' = Invoke("lengthAndChanges", currentDeps, prevDeps,
                      [length |-> detectDepsLengthChange(currentDeps, prevDeps),
                       changes |-> trackDependencyChanges(currentDeps, prevDeps)])
    /\ UNCHANGED <<nodeEnv, loadedEnv, heap, idleVars>>

CallDetectUnstableDeps(currentDeps, prevDeps) ==
    /\ call.fn = "none"
    /\ call' = Invoke("detectUnstableDeps", currentDeps, prevDeps,
                      detectUnstableDeps(currentDeps, prevDeps))
    /\ UNCHANGED <<nodeEnv, loadedEnv, heap, idleVars>>

CallIsExcessiveCallbackChange(changeCount, renderCount) ==
    /\ call.fn = "none"
    /\ call' = Invoke("isExcessiveCallbackChange", changeCount, renderCount,
                      isExcessiveCallbackChange(changeCount, renderCount))
    /\ UNCHANGED <<nodeEnv, loadedEnv, heap, idleVars>>

\* the environment's mode switch is set
SetEnv(v) ==
    /\ v # nodeEnv
    /\ nodeEnv' = v
    /\ lastOp' = [op |-> "setEnv", tracked |-> FALSE]
    /\ UNCHANGED <<loadedEnv, heap, call, warnedKeys, emitted, passed,
                   seenBefore, site>>

\* the modules are evaluated afresh (another process, or a reset module
\* registry): __DEV__ is computed and warnedKeys is a new Set
ModuleLoad ==
    /\ loadedEnv # nodeEnv
    /\ loadedEnv' = nodeEnv
    /\ warnedKeys' = {}
    /\ UNCHANGED <<nodeEnv, heap, call, emitted, passed, seenBefore, lastOp, site>>

\* the latest call is made again with the same arguments
\* detectStaleClosure(a.deps, b, a.callbackChanged)
CallDetectStaleClosure(declaredDeps, prevDeps, callbackChanged) ==
    /\ call.fn = "none"
    /\ call' = Invoke("detectStaleClosure",
                      [deps |-> declaredDeps, callbackChanged |-> callbackChanged],
                      prevDeps,
                      detectStaleClosure(declaredDeps, prevDeps, callbackChanged))
    /\ UNCHANGED <<nodeEnv, loadedEnv, heap, idleVars>>

\* the arguments of createWarningKey: componentName may be left out
KeyHookNames == {"useSafeEffect", "useSafeEffect:unstable"}
KeyIssueTypes == {"deps", "unstable:deps"}
KeyComponentNames == {None, Some(""), Some("Unknown"), Some("App")}
KeyArguments ==
    [componentName : KeyComponentNames, hookName : KeyHookNames,
     issueType : KeyIssueTypes]

KeyOf(t) == createWarningKey(t.hookName, t.issueType, t.componentName)

\* createWarningKey is called for the triple a and for the triple b
CallCreateWarningKey(a, b) ==
    /\ call.fn = "none"
    /\ call' = Invoke("createWarningKey", a, b, <<KeyOf(a), KeyOf(b)>>)
    /\ UNCHANGED <<nodeEnv, loadedEnv, heap, idleVars>>

CallAgain ==
    /\ call.fn # "none"
    /\ call' = [call EXCEPT
                   !.ret = CASE call.fn = "shallowEqual" ->
                                    shallowEqual(call.a, call.b)
                             [] call.fn = "trackDependencyChanges" ->
                                    trackDependencyChanges(call.a, call.b)
                             [] call.fn = "isExcessiveCallbackChange" ->
                                    isExcessiveCallbackChange(call.a, call.b)
                             [] call.fn = "detectStaleClosure" ->
                                    detectStaleClosure(call.a.deps, call.b,
                                                       call.a.callbackChanged)
                             [] call.fn = "unstableAndChanged" ->
                                    [unstable |->
                                         detectUnstableDeps(call.a, call.b),
                                     changes |->
                                         trackDependencyChanges(Present(call.a),
                                                                call.b)]
                             [] call.fn = "lengthAndChanges" ->
                                    [length |->
                                         detectDepsLengthChange(call.a, call.b),
                                     changes |->
                                         trackDependencyChanges(call.a, call.b)]
                             [] call.fn = "createWarningKey" ->
                                    <<KeyOf(call.a), KeyOf(call.b)>>
                             [] OTHER -> detectUnstableDeps(call.a, call.b),
                   !.flag = __DEV__,
                   !.flags = @ \cup {__DEV__}]
    /\ UNCHANGED <<nodeEnv, loadedEnv, heap, idleVars>>

----------------------------------------------------------------------------
(* SpecEq: shallowEqual over every heap of two literals *)

InitEq ==
    /\ nodeEnv = "development"
    /\ loadedEnv = nodeEnv
    /\ \E s1 \in Shapes, s2 \in Shapes :
          heap = [o \in ObjIds |->
                     CASE o = "o1" -> s1 [] o = "o2" -> s2 [] OTHER -> LeafObject]
    /\ InitIdle

NextEq ==
    /\ call.fn = "none"
    /\ \E a \in EqValues, b \in EqValues : CallShallowEqual(a, b)

SpecEq == InitEq /\ [][NextEq]_vars

----------------------------------------------------------------------------
(* SpecPure: the differ and the detector, under either value of the flag *)

InitPure ==
    /\ nodeEnv \in Envs
    /\ loadedEnv = nodeEnv
    /\ heap = FixedHeap
    /\ InitIdle

NextPure ==
    \/ /\ call.fn = "none"
       /\ \E a \in DepValues, b \in DepValues : CallShallowEqual(a, b)
    \/ /\ call.fn = "none"
       /\ \E c \in OptDepLists, p \in OptDepLists :
              CallTrackDependencyChanges(c, p)
    \/ /\ call.fn = "none"
       /\ \E c \in DepLists, p \in OptDepLists : CallDetectUnstableDeps(c, p)
    \/ /\ call.fn = "none"
       /\ \E n \in 0 .. MaxChangeCount, m \in 0 .. MaxCycles :
              CallIsExcessiveCallbackChange(n, m)
    \/ /\ call.fn = "none"
       /\ \E a \in KeyArguments, b \in KeyArguments : CallCreateWarningKey(a, b)
    \/ /\ call.fn = "none"
       /\ \E d \in DepLists, p \in OptDepLists, ch \in BOOLEAN :
              CallDetectStaleClosure(d, p, ch)
    \/ /\ call.fn = "none"
       /\ \E c \in OptDepLists, p \in OptDepLists : CallLengthAndChanges(c, p)
    \/ \E v \in Envs : SetEnv(v)
    \/ ModuleLoad
    \/ CallAgain

SpecPure == InitPure /\ [][NextPure]_vars

----------------------------------------------------------------------------
(* The detector and the differ on the same lists of values of every kind   *)

KindValues == {Fn("f1"), Null, Num("1"), Obj("o1"), Obj("o2")}
KindLists == ListsOver(KindValues, MaxKindLen)
OptKindLists == {Absent} \cup {Present(l) : l \in KindLists}

\* detectUnstableDeps(currentDeps, prevDeps) and
\* trackDependencyChanges(currentDeps, prevDeps) are called
CallUnstableAndChanged(currentDeps, prevDeps) ==
    /\ call.fn = "none"
    /\ call' = Invoke("unstableAndChanged", currentDeps, prevDeps,
                      [unstable |-> detectUnstableDeps(currentDeps, prevDeps),
                       changes |-> trackDependencyChanges(Present(currentDeps),
                                                          prevDeps)])
    /\ UNCHANGED <<nodeEnv, loadedEnv, heap, idleVars>>

NextKinds ==
    \/ \E c \in KindLists, p \in OptKindLists : CallUnstableAndChanged(c, p)
    \/ CallAgain

SpecKinds == InitPure /\ [][NextKinds]_vars

----------------------------------------------------------------------------
(* Spec: the emitter and a useSafeCallback call-site *)

Sites == {"s1"}
ComponentNames == {"App"}
Callbacks == {Fn("f1"), Fn("f2")}
HookDepValues == {Obj("o1"), Obj("o2")}
HookDepLists == ListsOver(HookDepValues, MaxHookLen)
HookOptions ==
    {DefaultOptions, [name |-> None, warnOnStaleClosure |-> Some(FALSE)]}

\* keys and messages of the callers of warnOnce and warn other than the hook
DirectKeys == {"k1", "App:useSafeCallback:excessive-changes"}
Messages == {"m1"}

OnceKeys(requests) ==
    {requests[i].key : i \in {j \in 1 .. Len(requests) : requests[j].once}}

\* an operation hands `requests` to the emitter
Emit(requests) ==
    LET w == Dispatch([keys |-> warnedKeys, out |-> <<>>], requests)
    IN  /\ warnedKeys' = w.keys
        /\ emitted' = w.out
        /\ passed' = requests
        /\ seenBefore' = seenBefore \cup OnceKeys(passed)

Init ==
    /\ nodeEnv \in Envs
    /\ loadedEnv = nodeEnv
    /\ heap = FixedHeap
    /\ call = NoCall
    /\ warnedKeys = {}
    /\ emitted = <<>>
    /\ passed = <<>>
    /\ seenBefore = {}
    /\ lastOp = [op |-> "load", tracked |-> FALSE]
    /\ site = [c \in Sites |-> NewSite]

CallWarnOnce(key, message) ==
    /\ Emit(<<Once(key, message)>>)
    /\ lastOp' = [op |-> "warnOnce", tracked |-> FALSE]
    /\ UNCHANGED <<nodeEnv, loadedEnv, heap, call, site>>

CallWarn(message) ==
    /\ Emit(<<Always(message)>>)
    /\ lastOp' = [op |-> "warn", tracked |-> FALSE]
    /\ UNCHANGED <<nodeEnv, loadedEnv, heap, call, site>>

CallClearWarnings ==
    /\ warnedKeys' = clearWarnings([keys |-> warnedKeys, out |-> <<>>]).keys
    /\ emitted' = <<>>
    /\ passed' = <<>>
    /\ seenBefore' = {}
    /\ lastOp' = [op |-> "clearWarnings", tracked |-> FALSE]
    /\ UNCHANGED <<nodeEnv, loadedEnv, heap, call, site>>

\* a caller runs the pure computations on two values: the comparator, the
\* differ, the unstable-reference detector and the classifier
CallPure(a, b) ==
    /\ Emit(<<>>)
    /\ lastOp' = [op |-> "pure",
                  tracked |-> FALSE,
                  ret |-> <<shallowEqual(a, b),
                            trackDependencyChanges(Present(<<a>>),
                                                   Present(<<b>>)).hasChanges,
                            detectUnstableDeps(<<a>>, Present(<<b>>)),
                            isExcessiveCallbackChange(MaxRenders, MaxRenders)>>]
    /\ UNCHANGED <<nodeEnv, loadedEnv, heap, call, site>>

\* React renders the component: the hook runs. The effects of the render
\* before have run by then.
Render(c, callback, deps, options, componentName) ==
    /\ ~site[c].effectPending
    /\ site[c].renderCount < MaxRenders
    /\ componentName \in (IF site[c].renderCount = 0 THEN ComponentNames
                          ELSE {site[c].componentName})
    /\ LET r == useSafeCallback(site[c], callback, deps, options, componentName)
       IN  /\ site' = [site EXCEPT ![c] = r.st]
           /\ Emit(r.requests)
           /\ lastOp' = [op |-> "render",
                         tracked |-> r.st.renderCount # site[c].renderCount]
    /\ UNCHANGED <<nodeEnv, loadedEnv, heap, call>>

\* React runs the passive effects of the committed render
FlushEffects(c) ==
    /\ site[c].effectPending
    /\ site' = [site EXCEPT ![c] = usePreviousEffect(site[c])]
    /\ Emit(<<>>)
    /\ lastOp' = [op |-> "effects", tracked |-> FALSE]
    /\ UNCHANGED <<nodeEnv, loadedEnv, heap, call>>

Next ==
    \/ \E k \in DirectKeys, m \in Messages : CallWarnOnce(k, m)
    \/ \E m \in Messages : CallWarn(m)
    \/ CallClearWarnings
    \/ \E c \in Sites, f \in Callbacks, d \in HookDepLists, o \in HookOptions,
          n \in ComponentNames : Render(c, f, d, o, n)
    \/ \E c \in Sites : FlushEffects(c)
    \/ \E v \in Envs : SetEnv(v)
    \/ \E a \in HookDepValues, b \in HookDepValues : CallPure(a, b)

Spec == Init /\ [][Next]_vars

----------------------------------------------------------------------------
(* SpecTracker: the identity tracker, as a CallbackTracker object updated  *)
(* by updateCallbackTracker or as the refs of a useSafeCallback call-site  *)

Trackers == {"t1"}
RenderCounts == 1 .. MaxRenders

CallUpdateCallbackTracker(c, currentCallback, currentDeps, renderCount) ==
    /\ site[c].changeCount < MaxChangeCount
    /\ LET r == updateCallbackTracker(site[c], currentCallback, currentDeps,
                                      renderCount)
       IN  /\ site' = [site EXCEPT ![c] = r.tracker]
           /\ call' = [fn |-> "updateCallbackTracker", a |-> currentCallback,
                       b |-> currentDeps, renderCount |-> renderCount,
                       ret |-> r.result]
    /\ lastOp' = [op |-> "updateCallbackTracker", tracked |-> FALSE]
    /\ UNCHANGED <<nodeEnv, loadedEnv, heap, warnedKeys, emitted, passed,
                   seenBefore>>

InitTracker ==
    /\ nodeEnv \in Envs
    /\ loadedEnv = nodeEnv
    /\ heap = FixedHeap
    /\ call = NoCall
    /\ warnedKeys = {}
    /\ emitted = <<>>
    /\ passed = <<>>
    /\ seenBefore = {}
    /\ lastOp = [op |-> "load", tracked |-> FALSE]
    /\ site \in {[c \in Sites |-> NewSite],
                 [c \in Trackers |-> createCallbackTracker]}

NextTracker ==
    \/ \E c \in DOMAIN site \cap Trackers, f \in Callbacks, d \in HookDepLists,
          n \in RenderCounts : CallUpdateCallbackTracker(c, f, d, n)
    \/ \E c \in DOMAIN site \cap Sites, f \in Callbacks, d \in HookDepLists,
          o \in HookOptions, n \in ComponentNames : Render(c, f, d, o, n)
    \/ \E c \in DOMAIN site \cap Sites : FlushEffects(c)

SpecTracker == InitTracker /\ [][NextTracker]_vars

----------------------------------------------------------------------------
(* SpecMemo: a useSafeMemo call-site *)

MemoThreshold == 2
MemoOptions ==
    {[name |-> None, warnOnRecompute |-> w, recomputeThreshold |-> t] :
        w \in {None, Some(FALSE)}, t \in {None, Some(MemoThreshold)}}

InitMemo ==
    /\ nodeEnv \in Envs
    /\ loadedEnv = nodeEnv
    /\ heap = FixedHeap
    /\ call = NoCall
    /\ warnedKeys = {}
    /\ emitted = <<>>
    /\ passed = <<>>
    /\ seenBefore = {}
    /\ lastOp = [op |-> "load", tracked |-> FALSE]
    /\ site = [c \in Sites |-> NewMemoSite]

\* React renders the component: useSafeMemo runs
RenderMemo(c, factory, deps, options, componentName) ==
    /\ ~site[c].effectPending
    /\ site[c].renderCount < MaxMemoRenders
    /\ componentName \in (IF site[c].renderCount = 0 THEN ComponentNames
                          ELSE {site[c].componentName})
    /\ LET r == useSafeMemo(site[c], factory, deps, options, componentName)
       IN  /\ site' = [site EXCEPT ![c] = r.st]
           /\ Emit(r.requests)
           /\ lastOp' = [op |-> "renderMemo",
                         tracked |-> r.st.renderCount # site[c].renderCount,
                         factoryRan |-> r.factoryRan,
                         returns |-> r.returns,
                         options |-> options]
    /\ UNCHANGED <<nodeEnv, loadedEnv, heap, call>>

NextMemo ==
    \/ \E c \in Sites, f \in Callbacks, d \in HookDepLists, o \in MemoOptions,
          n \in ComponentNames : RenderMemo(c, f, d, o, n)
    \/ \E c \in Sites : FlushEffects(c)

SpecMemo == InitMemo /\ [][NextMemo]_vars

----------------------------------------------------------------------------
(* SpecEffect: a useSafeEffect or a useSafeLayoutEffect call-site.  `call` *)
(* keeps the history of the call-site: the number of renders so far and    *)
(* the deps given to the latest two.                                       *)

EffectKinds == {"useSafeEffect", "useSafeLayoutEffect"}
\* dependency lists of every length; the first element is either object
EffectDepLists ==
    {l \in ListsOver(HookDepValues, MaxEffectLen) :
        \A i \in 2 .. Len(l) : l[i] = Obj("o1")}
OptEffectDepLists == {Absent} \cup {Present(l) : l \in EffectDepLists}
EffectOptions ==
    {[name |-> None, warnOnMissingDeps |-> m, warnOnChangingDeps |-> c] :
        m \in {None, Some(FALSE)}, c \in {None, Some(FALSE)}}

\* what the call-site has been given so far: the number of cycles, the
\* dependency lists of the last two, the cycles whose list length differed
\* from the cycle before, and the length-change warnings printed
NoHistory ==
    [fn |-> "history", cycles |-> 0, now |-> Absent, before |-> Absent,
     lengthChanges |-> 0, lengthWarnings |-> 0]

\* the messages printed for calls of warn (not warnOnce)
WarnPrinted(requests, out) ==
    Cardinality({j \in 1 .. Len(out) :
                    \E i \in 1 .. Len(requests) :
                        /\ ~requests[i].once
                        /\ requests[i].message = out[j]})

InitEffect ==
    /\ nodeEnv \in Envs
    /\ loadedEnv = nodeEnv
    /\ heap = FixedHeap
    /\ call = NoHistory
    /\ warnedKeys = {}
    /\ emitted = <<>>
    /\ passed = <<>>
    /\ seenBefore = {}
    /\ lastOp = [op |-> "load", tracked |-> FALSE]
    /\ \E k \in EffectKinds, d \in BOOLEAN :
          /\ d => k = "useSafeLayoutEffect"
          /\ site = [c \in Sites |-> [NewEffectSite(k) EXCEPT !.canUseDOM = d]]

\* React renders the component: the effect hook runs
RenderEffect(c, effect, deps, options, componentName) ==
    /\ site[c].mounted
    /\ ~site[c].effectPending
    /\ call.cycles < MaxRenders
    /\ componentName \in (IF site[c].renderCount = 0 THEN ComponentNames
                          ELSE {site[c].componentName})
    /\ LET r == IF site[c].kind = "useSafeEffect"
                THEN useSafeEffect(site[c], effect, deps, options,
                                   componentName)
                ELSE useSafeLayoutEffect(site[c], effect, deps, options,
                                         componentName)
       IN  /\ site' = [site EXCEPT ![c] = r.st]
           /\ Emit(r.requests)
           /\ lastOp' = [op |-> "renderEffect",
                         tracked |-> r.st.renderCount # site[c].renderCount,
                         prevDeps |-> r.prevDeps,
                         changes |-> r.changes,
                         options |-> options]
    /\ call' = [call EXCEPT
                    !.cycles = @ + 1,
                    !.now = deps,
                    !.before = call.now,
                    !.lengthChanges =
                        IF /\ lastOp'.tracked
                           /\ options.warnOnChangingDeps # Some(FALSE)
                           /\ deps.present
                           /\ call.now.present
                           /\ Len(deps.items) # Len(call.now.items)
                        THEN @ + 1 ELSE @,
                    !.lengthWarnings = @ + WarnPrinted(passed', emitted')]
    /\ UNCHANGED <<nodeEnv, loadedEnv, heap>>

\* React's layout phase of the commit: the wrapped effect of
\* useSafeLayoutEffect runs, with a DOM
LayoutEffects(c) ==
    /\ site[c].effectPending
    /\ site[c].layoutPending
    /\ site' = [site EXCEPT ![c] = layoutEffects(site[c])]
    /\ Emit(<<>>)
    /\ lastOp' = [op |-> "layout", tracked |-> FALSE]
    /\ UNCHANGED <<nodeEnv, loadedEnv, heap, call>>

\* React runs the passive effects of the commit
CommitEffects(c) ==
    /\ site[c].effectPending
    /\ ~site[c].layoutPending
    /\ site' = [site EXCEPT ![c] = commitEffects(site[c])]
    /\ Emit(<<>>)
    /\ lastOp' = [op |-> "effects", tracked |-> FALSE]
    /\ UNCHANGED <<nodeEnv, loadedEnv, heap, call>>

\* React unmounts the component
UnmountEffect(c) ==
    /\ site[c].mounted
    /\ ~site[c].effectPending
    /\ site[c].effectDeps.has
    /\ site' = [site EXCEPT ![c] = removeEffects(site[c])]
    /\ Emit(<<>>)
    /\ lastOp' = [op |-> "unmount", tracked |-> FALSE]
    /\ UNCHANGED <<nodeEnv, loadedEnv, heap, call>>

\* React runs the cleanups of the passive effects, after the commit that
\* removed the component
CleanupEffects(c) ==
    /\ site[c].cleanupPending
    /\ site' = [site EXCEPT ![c] = unmountEffects(site[c])]
    /\ Emit(<<>>)
    /\ lastOp' = [op |-> "cleanup", tracked |-> FALSE]
    /\ UNCHANGED <<nodeEnv, loadedEnv, heap, call>>

\* React mounts the component again: a new instance of the call-site, with
\* new refs; the module's warnedKeys lives on
RemountEffect(c) ==
    /\ ~site[c].mounted
    /\ ~site[c].cleanupPending
    /\ site' = [site EXCEPT ![c] = [NewEffectSite(site[c].kind) EXCEPT
                                        !.canUseDOM = site[c].canUseDOM]]
    /\ call' = NoHistory
    /\ Emit(<<>>)
    /\ lastOp' = [op |-> "remount", tracked |-> FALSE]
    /\ UNCHANGED <<nodeEnv, loadedEnv, heap>>

NextEffect ==
    \/ \E c \in Sites, d \in OptEffectDepLists, o \in EffectOptions,
          n \in ComponentNames : RenderEffect(c, Undefined, d, o, n)
    \/ \E c \in Sites : LayoutEffects(c)
    \/ \E c \in Sites : CommitEffects(c)
    \/ \E c \in Sites : UnmountEffect(c)
    \/ \E c \in Sites : CleanupEffects(c)
    \/ \E c \in Sites : RemountEffect(c)
    \/ CallClearWarnings

SpecEffect == InitEffect /\ [][NextEffect]_vars

----------------------------------------------------------------------------
(* SpecLifecycle: a call-site of useSafeState, useSafeReducer, useIsMounted *)
(* or useSafeContext, from its first render to after its unmount           *)

LifeKinds == {"useSafeState", "useSafeReducer", "useIsMounted", "useSafeContext"}
StateValues == {0, 1}
ReducerActions ==
    {[hasType |-> TRUE, type |-> "toggle"], [hasType |-> FALSE, type |-> ""]}
ContextValues == {Undefined, Null, Obj("o1")}
NameOptions == {[name |-> None], [name |-> Some("other")]}
ContextOptions ==
    {[name |-> None, throwOnMissing |-> t] : t \in {None, Some(FALSE), Some(TRUE)}}

InitLifecycle ==
    /\ nodeEnv \in Envs
    /\ loadedEnv = nodeEnv
    /\ heap = FixedHeap
    /\ call = NoCall
    /\ warnedKeys = {}
    /\ emitted = <<>>
    /\ passed = <<>>
    /\ seenBefore = {}
    /\ lastOp = [op |-> "load", tracked |-> FALSE]
    /\ \E k \in LifeKinds : site = [c \in Sites |-> NewLifeSite(k)]

\* the step a render of hook result r takes
RenderStep(c, r, arg, options) ==
    /\ site' = [site EXCEPT ![c] = r.st]
    /\ Emit(r.requests)
    /\ lastOp' = [op |-> "render", tracked |-> __DEV__, arg |-> arg,
                  options |-> options, returns |-> r.returns, threw |-> r.threw]
    /\ UNCHANGED <<nodeEnv, loadedEnv, heap, call>>

CanRender(c, kind) ==
    /\ site[c].kind = kind
    /\ site[c].mounted
    /\ ~site[c].effectPending
    /\ site[c].renders < MaxRenders

RenderState(c, initialState, options) ==
    /\ CanRender(c, "useSafeState")
    /\ RenderStep(c, useSafeState(site[c], initialState, options, "App"),
                  initialState, options)

RenderReducer(c, initialArg, options) ==
    /\ CanRender(c, "useSafeReducer")
    /\ RenderStep(c, useSafeReducer(site[c], initialArg, options, "App"),
                  initialArg, options)

RenderIsMounted(c) ==
    /\ CanRender(c, "useIsMounted")
    /\ RenderStep(c, useIsMounted(site[c]), 0, [name |-> None])

RenderContext(c, value, options) ==
    /\ CanRender(c, "useSafeContext")
    /\ RenderStep(c, useSafeContext(site[c], value, options, "App"),
                  value, options)

\* React runs the mount effect of the first render
CommitMount(c) ==
    /\ site[c].effectPending
    /\ site' = [site EXCEPT ![c] = mountEffect(site[c])]
    /\ Emit(<<>>)
    /\ lastOp' = [op |-> "effects", tracked |-> FALSE]
    /\ UNCHANGED <<nodeEnv, loadedEnv, heap, call>>

\* React unmounts the component
UnmountLife(c) ==
    /\ site[c].mounted
    /\ site[c].renders > 0
    /\ ~site[c].effectPending
    /\ site' = [site EXCEPT ![c] = unmount(site[c])]
    /\ Emit(<<>>)
    /\ lastOp' = [op |-> "unmount", tracked |-> FALSE]
    /\ UNCHANGED <<nodeEnv, loadedEnv, heap, call>>

\* React runs the cleanup of the mount effect, after the commit that removed
\* the component
CleanupLife(c) ==
    /\ site[c].cleanupPending
    /\ site' = [site EXCEPT ![c] = unmountCleanup(site[c])]
    /\ Emit(<<>>)
    /\ lastOp' = [op |-> "cleanup", tracked |-> FALSE]
    /\ UNCHANGED <<nodeEnv, loadedEnv, heap, call>>

\* the step a call of the returned setter or dispatch takes
CallStep(c, r, update) ==
    /\ site[c].renders > 0
    /\ Len(site[c].called) < MaxUpdates
    /\ site' = [site EXCEPT ![c] = [r.st EXCEPT !.called = Append(@, update)]]
    /\ Emit(r.requests)
    /\ lastOp' = [op |-> "call", tracked |-> __DEV__,
                  whileMounted |-> site[c].mounted,
                  afterCleanup |-> ~site[c].mounted /\ ~site[c].cleanupPending]
    /\ UNCHANGED <<nodeEnv, loadedEnv, heap, call>>

\* a setter some render returned is called, by an event handler or by an
\* asynchronous callback that outlives the component
CallSetState(c, fn, value) ==
    /\ site[c].kind = "useSafeState"
    /\ fn \in site[c].closures
    /\ CallStep(c, safeSetState(site[c], fn, value), value)

\* a dispatch some render returned is called
CallDispatch(c, fn, action) ==
    /\ site[c].kind = "useSafeReducer"
    /\ fn \in site[c].closures
    /\ CallStep(c, safeDispatch(site[c], fn, action), action)

\* the function useIsMounted returned is called
CallIsMounted(c) ==
    /\ site[c].kind = "useIsMounted"
    /\ site[c].renders > 0
    /\ Len(site[c].called) < MaxUpdates
    /\ site' = [site EXCEPT ![c].called = Append(@, isMounted(site[c]))]
    /\ Emit(<<>>)
    /\ lastOp' = [op |-> "isMounted", tracked |-> FALSE,
                  returns |-> isMounted(site[c])]
    /\ UNCHANGED <<nodeEnv, loadedEnv, heap, call>>

NextLifecycle ==
    \/ \E c \in Sites, v \in StateValues, o \in NameOptions : RenderState(c, v, o)
    \/ \E c \in Sites, v \in StateValues, o \in NameOptions : RenderReducer(c, v, o)
    \/ \E c \in Sites : RenderIsMounted(c)
    \/ \E c \in Sites, v \in ContextValues, o \in ContextOptions :
          RenderContext(c, v, o)
    \/ \E c \in Sites : CommitMount(c)
    \/ \E c \in Sites : UnmountLife(c)
    \/ \E c \in Sites : CleanupLife(c)
    \/ \E c \in Sites, v \in StateValues :
          \E fn \in site[c].closures : CallSetState(c, fn, v)
    \/ \E c \in Sites, a \in ReducerActions :
          \E fn \in site[c].closures : CallDispatch(c, fn, a)
    \/ \E c \in Sites : CallIsMounted(c)

SpecLifecycle == InitLifecycle /\ [][NextLifecycle]_vars

----------------------------------------------------------------------------
(* One useSafeCallback call-site rendered for several cycles, with the     *)
(* lists given and the callbacks returned in the last two cycles recorded  *)

CallbackDepLists ==
    {l \in ListsOver(HookDepValues, MaxCallbackLen) :
        \A i \in 2 .. Len(l) : l[i] = Obj("o1")}

\* what the call-site has been given and has returned so far
NoCallbackHistory ==
    [fn |-> "history", cycles |-> 0, now |-> Absent, before |-> Absent,
     returned |-> Undefined, returnedBefore |-> Undefined, changes |-> 0,
     freshOnChange |-> TRUE, sameLength |-> TRUE]

\* the list of this cycle differs from the list of the cycle before at an
\* index both have
ChangedAtCommonIndex(deps, before) ==
    /\ before.present
    /\ \E i \in 1 .. Len(deps) :
          i <= Len(before.items) /\ deps[i] # before.items[i]

InitCallback ==
    /\ nodeEnv \in Envs
    /\ loadedEnv = nodeEnv
    /\ heap = FixedHeap
    /\ call = NoCallbackHistory
    /\ warnedKeys = {}
    /\ emitted = <<>>
    /\ passed = <<>>
    /\ seenBefore = {}
    /\ lastOp = [op |-> "load", tracked |-> FALSE]
    /\ site = [c \in Sites |-> NewSite]

\* React renders the component: the hook runs
RenderCallback(c, callback, deps, options, componentName) ==
    /\ ~site[c].effectPending
    /\ call.cycles < MaxCallbackCycles
    /\ componentName \in (IF site[c].renderCount = 0 THEN ComponentNames
                          ELSE {site[c].componentName})
    /\ LET r == useSafeCallback(site[c], callback, deps, options, componentName)
       IN  /\ site' = [site EXCEPT ![c] = r.st]
           /\ Emit(r.requests)
           /\ lastOp' = [op |-> "renderCallback",
                         tracked |-> r.st.renderCount # site[c].renderCount,
                         options |-> options]
           /\ call' = [call EXCEPT
                           !.cycles = @ + 1,
                           !.now = Present(deps),
                           !.before = call.now,
                           !.returned = r.returns,
                           !.returnedBefore = call.returned,
                           !.changes = IF r.returns # call.returned
                                       THEN @ + 1 ELSE @,
                           !.freshOnChange =
                               @ /\ (ChangedAtCommonIndex(deps, call.now)
                                        => r.returns # call.returned),
                           !.sameLength =
                               @ /\ (call.now.present
                                        => Len(deps) = Len(call.now.items))]
    /\ UNCHANGED <<nodeEnv, loadedEnv, heap>>

NextCallback ==
    \/ \E c \in Sites, f \in Callbacks, d \in CallbackDepLists,
          o \in HookOptions, n \in ComponentNames :
            RenderCallback(c, f, d, o, n)
    \/ \E c \in Sites : FlushEffects(c)
    \/ CallClearWarnings

SpecCallback == InitCallback /\ [][NextCallback]_vars

----------------------------------------------------------------------------
(* Two useSafeCallback call-sites rendered in any order: two usages in one  *)
(* component, one usage in two instances of a component, or usages in two  *)
(* components                                                              *)

TwoSites == {"s1", "s2"}
SiteDepLists == {<<Obj("o1")>>, <<Obj("o2")>>}
SiteNames == {None, Some("other")}
SiteComponents == {"App", "Panel"}
\* the second call-site against the first: the same component and hook name,
\* another hook name, or another component
SiteIdentities ==
    {id \in [name : SiteNames, component : SiteComponents] :
        id.name = None \/ id.component = "App"}
IssueKinds == {"stale-closure", "unstable-deps", "excessive-changes"}

\* the issue type is the last part of a warning key
EndsWith(key, suffix) ==
    /\ Len(key) >= Len(suffix)
    /\ SubSeq(key, Len(key) - Len(suffix) + 1, Len(key)) = suffix

\* the refs of a hook instance belong to that instance: a render of
\* call-site c stores into c's refs
StoreRefs_sharedChangeCount(sites, c, st) ==
    [d \in DOMAIN sites |->
        IF d = c THEN st ELSE [sites[d] EXCEPT !.changeCount = st.changeCount]]

StoreRefs(sites, c, st) == [sites EXCEPT ![c] = st]

\* options.name of each call-site, the name of the component it is in, and
\* the issue kinds each call-site has had printed
InitSites ==
    /\ nodeEnv \in Envs
    /\ loadedEnv = nodeEnv
    /\ heap = FixedHeap
    /\ \E id \in SiteIdentities :
          call = [fn |-> "sites",
                  names |-> [c \in TwoSites |->
                                IF c = "s1" THEN None ELSE id.name],
                  components |-> [c \in TwoSites |->
                                     IF c = "s1" THEN "App" ELSE id.component],
                  printed |-> [c \in TwoSites |-> {}]]
    /\ warnedKeys = {}
    /\ emitted = <<>>
    /\ passed = <<>>
    /\ seenBefore = {}
    /\ lastOp = [op |-> "load", tracked |-> FALSE]
    /\ site = [c \in TwoSites |-> NewSite]

\* the issue kinds of the warnOnce calls of a render, and those of them
\* whose message reached the console
KindsRequested(requests) ==
    {k \in IssueKinds :
        \E i \in 1 .. Len(requests) : EndsWith(requests[i].key, ":" \o k)}

KindsPrinted(requests, out) ==
    {k \in IssueKinds :
        \E i \in 1 .. Len(requests), j \in 1 .. Len(out) :
            /\ EndsWith(requests[i].key, ":" \o k)
            /\ out[j] = requests[i].message}

RenderSite(c, callback, deps, componentName) ==
    /\ componentName = call.components[c]
    /\ ~site[c].effectPending
    /\ site[c].renderCount < MaxSiteRenders
    /\ LET options == [name |-> call.names[c], warnOnStaleClosure |-> None]
           r == useSafeCallback(site[c], callback, deps, options, componentName)
           requested == KindsRequested(r.requests)
           printed == KindsPrinted(r.requests, emitted')
       IN  /\ site' = StoreRefs(site, c, r.st)
           /\ Emit(r.requests)
           /\ lastOp' = [op |-> "renderSite",
                         tracked |-> r.st.renderCount # site[c].renderCount,
                         site |-> c,
                         requested |-> requested,
                         printed |-> printed,
                         printedBefore |-> call.printed]
           /\ call' = [call EXCEPT !.printed[c] = @ \cup printed]
    /\ UNCHANGED <<nodeEnv, loadedEnv, heap>>

FlushSite(c) ==
    /\ site[c].effectPending
    /\ site' = StoreRefs(site, c, usePreviousEffect(site[c]))
    /\ Emit(<<>>)
    /\ lastOp' = [op |-> "effects", tracked |-> FALSE, site |-> c]
    /\ UNCHANGED <<nodeEnv, loadedEnv, heap, call>>

NextSites ==
    \/ \E c \in TwoSites, f \in Callbacks, d \in SiteDepLists,
          n \in SiteComponents : RenderSite(c, f, d, n)
    \/ \E c \in TwoSites : FlushSite(c)

SpecSites == InitSites /\ [][NextSites]_vars

----------------------------------------------------------------------------
(* One call-site of any of the four wrappers that watch a dependency list, *)
(* or of useSafeRef, rendered for several cycles                           *)

WrapperKinds == {"useSafeCallback", "useSafeMemo", "useSafeRef"} \cup EffectKinds
RefValues == {Undefined, Null, Obj("o1")}
RefOptions ==
    {[name |-> n, warnOnNullInit |-> w] :
        n \in {None, Some("other")}, w \in {None, Some(FALSE), Some(TRUE)}}
OptHookDepLists == {Absent} \cup {Present(l) : l \in HookDepLists}

NewWrapperSite(kind) ==
    IF kind = "useSafeCallback" THEN NewSite
    ELSE IF kind = "useSafeMemo" THEN NewMemoSite
    ELSE IF kind = "useSafeRef" THEN NewRefSite
    ELSE NewEffectSite(kind)

InitWrappers ==
    /\ nodeEnv \in Envs
    /\ loadedEnv = nodeEnv
    /\ heap = FixedHeap
    /\ \E k \in WrapperKinds :
          /\ call = [fn |-> "history", kind |-> k, cycles |-> 0,
                     now |-> Absent, before |-> Absent, unstableWarnings |-> 0,
                     lengthWarnings |-> 0]
          /\ site = [c \in Sites |-> NewWrapperSite(k)]
    /\ warnedKeys = {}
    /\ emitted = <<>>
    /\ passed = <<>>
    /\ seenBefore = {}
    /\ lastOp = [op |-> "load", tracked |-> FALSE]

\* React renders the component: the wrapper runs. Only the effect hooks
\* take an omitted list and the option warnOnChangingDeps.
RenderWrapper(c, f, deps, warnOnChangingDeps, componentName) ==
    /\ ~site[c].effectPending
    /\ call.cycles < MaxWrapperCycles
    /\ call.kind # "useSafeRef"
    /\ componentName \in (IF site[c].renderCount = 0 THEN ComponentNames
                          ELSE {site[c].componentName})
    /\ call.kind \notin EffectKinds
          => (deps.present /\ warnOnChangingDeps = None)
    /\ LET r == IF call.kind = "useSafeCallback"
                THEN useSafeCallback(site[c], f, deps.items, DefaultOptions,
                                     componentName)
                ELSE IF call.kind = "useSafeMemo"
                THEN useSafeMemo(site[c], f, deps.items, DefaultMemoOptions,
                                 componentName)
                ELSE IF call.kind = "useSafeEffect"
                THEN useSafeEffect(site[c], Undefined, deps,
                                   [DefaultEffectOptions EXCEPT
                                       !.warnOnChangingDeps = warnOnChangingDeps],
                                   componentName)
                ELSE useSafeLayoutEffect(site[c], Undefined, deps,
                                   [DefaultEffectOptions EXCEPT
                                       !.warnOnChangingDeps = warnOnChangingDeps],
                                   componentName)
       IN  /\ site' = [site EXCEPT ![c] = r.st]
           /\ Emit(r.requests)
           /\ lastOp' = [op |-> "renderWrapper",
                         tracked |-> r.st.renderCount # site[c].renderCount,
                         warnOnChangingDeps |-> warnOnChangingDeps]
           /\ call' = [call EXCEPT
                           !.cycles = @ + 1,
                           !.now = deps,
                           !.before = call.now,
                           !.unstableWarnings =
                               @ + Cardinality(
                                   {i \in 1 .. Len(r.requests) :
                                       /\ EndsWith(r.requests[i].key,
                                                   ":unstable-deps")
                                       /\ \E j \in 1 .. Len(emitted') :
                                             emitted'[j] = r.requests[i].message}),
                           !.lengthWarnings =
                               @ + Cardinality(
                                   {i \in 1 .. Len(r.requests) :
                                       /\ EndsWith(r.requests[i].key,
                                                   ":deps-length")
                                       /\ \E j \in 1 .. Len(emitted') :
                                             emitted'[j] = r.requests[i].message})]
    /\ UNCHANGED <<nodeEnv, loadedEnv, heap>>

\* React renders the component: useSafeRef runs
RenderRef(c, initialValue, options, componentName) ==
    /\ call.kind = "useSafeRef"
    /\ call.cycles < MaxWrapperCycles
    /\ componentName \in (IF site[c].renderCount = 0 THEN ComponentNames
                          ELSE {site[c].componentName})
    /\ LET r == useSafeRef(site[c], initialValue, options, componentName)
       IN  /\ site' = [site EXCEPT ![c] = r.st]
           /\ Emit(r.requests)
           /\ lastOp' = [op |-> "renderRef",
                         tracked |-> r.st.renderCount # site[c].renderCount,
                         initialValue |-> initialValue,
                         options |-> options,
                         returns |-> r.returns]
    /\ call' = [call EXCEPT !.cycles = @ + 1]
    /\ UNCHANGED <<nodeEnv, loadedEnv, heap>>

\* React commits the render and runs its effects
FlushWrapper(c) ==
    /\ site[c].effectPending
    /\ site' = [site EXCEPT ![c] = IF call.kind \in EffectKinds
                                   THEN commitEffects(site[c])
                                   ELSE usePreviousEffect(site[c])]
    /\ Emit(<<>>)
    /\ lastOp' = [op |-> "effects", tracked |-> FALSE]
    /\ UNCHANGED <<nodeEnv, loadedEnv, heap, call>>

NextWrappers ==
    \/ \E c \in Sites, f \in Callbacks, d \in OptHookDepLists,
          w \in {None, Some(FALSE)}, n \in ComponentNames :
            RenderWrapper(c, f, d, w, n)
    \/ \E c \in Sites, v \in RefValues, o \in RefOptions, n \in ComponentNames :
            RenderRef(c, v, o, n)
    \/ \E c \in Sites : FlushWrapper(c)

SpecWrappers == InitWrappers /\ [][NextWrappers]_vars

----------------------------------------------------------------------------
(* One call-site of an effect hook whose effect returns a cleanup function *)
(* or nothing, rendered, committed, unmounted and mounted again            *)

\* what effect() returns
Cleanups == {Undefined, Fn("c1")}

NextEffectRuns ==
    \/ \E c \in Sites, e \in Cleanups, d \in OptHookDepLists,
          n \in ComponentNames :
            RenderEffect(c, e, d, DefaultEffectOptions, n)
    \/ \E c \in Sites : LayoutEffects(c)
    \/ \E c \in Sites : CommitEffects(c)
    \/ \E c \in Sites : UnmountEffect(c)
    \/ \E c \in Sites : CleanupEffects(c)
    \/ \E c \in Sites : RemountEffect(c)

SpecEffectRuns == InitEffect /\ [][NextEffectRuns]_vars

----------------------------------------------------------------------------
(* Properties of the pure functions *)

Elems(seq) == {seq[i] : i \in 1 .. Len(seq)}
Ascending(seq) == \A i \in 1 .. Len(seq) - 1 : seq[i] < seq[i + 1]

IsTrackCall == call.fn = "trackDependencyChanges"
BothPresent == call.a.present /\ call.b.present

\* C3 (as claimed): the results of shallowEqual, trackDependencyChanges and
\* detectUnstableDeps for the same arguments are the same whether the
\* diagnostics flag is enabled or disabled.
C3_PureResultsUnaffectedByFlag ==
    call.fn \in {"shallowEqual", "trackDependencyChanges", "detectUnstableDeps"}
        => call.ret = call.ret0

\* C3 (amended): shallowEqual and trackDependencyChanges give the same result
\* for the same arguments under either value of the flag; detectUnstableDeps
\* is gated: it gives the same result as long as the flag stays enabled, and
\* the empty list whenever the flag is disabled.
C3_OnlyDetectorIsGated ==
    /\ call.fn \in {"shallowEqual", "trackDependencyChanges"}
          => call.ret = call.ret0
    /\ call.fn = "detectUnstableDeps" /\ call.flags = {TRUE}
          => call.ret = call.ret0
    /\ call.fn = "detectUnstableDeps" /\ ~call.flag
          => call.ret = <<>>

\* the same diff, with a change to report, has run under both flag values
C3_Witness ==
    /\ IsTrackCall
    /\ call.flags = {TRUE, FALSE}
    /\ ~call.flag
    /\ call.ret.hasChanges
    /\ call.ret.changedIndices # <<>>

\* C5: every report of trackDependencyChanges has
\* hasChanges = (changedIndices non-empty \/ lengthChanged).
C5_HasChangesInvariant ==
    IsTrackCall =>
        (call.ret.hasChanges
            <=> (call.ret.changedIndices # <<>> \/ call.ret.lengthChanged))

\* two present lists whose lengths differ and no index is reported
C5_Witness ==
    /\ IsTrackCall
    /\ BothPresent
    /\ call.ret.lengthChanged
    /\ call.ret.changedIndices = <<>>
    /\ call.ret.hasChanges

\* C6 (as claimed): for two present lists of different lengths every index
\* from the shorter length up to the longer one is in changedIndices,
\* whatever value the longer list holds there.
C6_OutOfRangeIsAlwaysChanged ==
    (IsTrackCall /\ BothPresent /\ Len(call.a.items) # Len(call.b.items)) =>
        LET m == Len(call.a.items)
            n == Len(call.b.items)
        IN  \A i \in 0 .. MathMax(m, n) - 1 :
                (i >= m \/ i >= n) => i \in Elems(call.ret.changedIndices)

\* C7: for present lists, lengthChanged is true exactly when the lengths
\* differ (then hasChanges holds and both lengths are reported); for equal
\* lengths changedIndices is the ascending list of the indices at which the
\* lists are not identity-equal, so lists differing at exactly k give <<k>>
\* and a list against itself gives hasChanges = FALSE.
C7_PresentListsDiff ==
    (IsTrackCall /\ BothPresent) =>
        LET L2 == call.a.items
            L1 == call.b.items
            r == call.ret
            differing == {i \in 0 .. Len(L2) - 1 : L2[i + 1] # L1[i + 1]}
        IN  /\ r.lengthChanged <=> Len(L1) # Len(L2)
            /\ r.lengthChanged =>
                  /\ r.hasChanges
                  /\ r.prevLength = Some(Len(L1))
                  /\ r.currentLength = Some(Len(L2))
            /\ Len(L1) = Len(L2) =>
                  /\ Ascending(r.changedIndices)
                  /\ Elems(r.changedIndices) = differing
                  /\ \A k \in differing :
                        differing = {k} => r.changedIndices = <<k>>
            /\ L1 = L2 => ~r.hasChanges

\* equal lengths, NaN unchanged at index 0, a new object at index 1
C7_Witness ==
    /\ IsTrackCall
    /\ call.a = Present(<<NaN, Obj("o1")>>)
    /\ call.b = Present(<<NaN, Obj("o2")>>)
    /\ call.ret.changedIndices = <<1>>
    /\ ~call.ret.lengthChanged

\* C8: with both lists absent nothing changed; with exactly one absent the
\* report has lengthChanged and hasChanges, no changed index, the length of
\* the present side and an undefined length for the absent side.
C8_AbsentLists ==
    IsTrackCall =>
        LET r == call.ret
        IN  /\ (~call.a.present /\ ~call.b.present) =>
                  /\ ~r.hasChanges
                  /\ ~r.lengthChanged
                  /\ r.changedIndices = <<>>
            /\ (call.a.present # call.b.present) =>
                  /\ r.hasChanges
                  /\ r.lengthChanged
                  /\ r.changedIndices = <<>>
                  /\ r.currentLength =
                        IF call.a.present THEN Some(Len(call.a.items)) ELSE None
                  /\ r.prevLength =
                        IF call.b.present THEN Some(Len(call.b.items)) ELSE None

\* no list now, the empty list before: a length change from 0 to undefined
C8_Witness ==
    /\ IsTrackCall
    /\ call.a = Absent
    /\ call.b = Present(<<>>)
    /\ call.ret.lengthChanged
    /\ call.ret.prevLength = Some(0)
    /\ call.ret.currentLength = None

----------------------------------------------------------------------------
(* Properties of shallowEqual *)

IsObjectLike(v) == v.type = "object"
EnumerableKeys(v) == {k \in DOMAIN heap[v.id] : heap[v.id][k].enumerable}

ReferenceComparator(a, b) ==
    IF a = b THEN TRUE
    ELSE IF ~IsObjectLike(a) \/ ~IsObjectLike(b) THEN FALSE
    ELSE /\ Cardinality(EnumerableKeys(a)) = Cardinality(EnumerableKeys(b))
         /\ \A k \in EnumerableKeys(a) :
               /\ k \in DOMAIN heap[b.id]
               /\ heap[a.id][k].value = heap[b.id][k].value

\* C9: shallowEqual(a, b) is the reference comparator: true for identity-equal
\* values (NaN with NaN; not +0 with -0), false if either is no object or is
\* null, else true exactly when the own enumerable key counts agree and every
\* key of a is an own key of b with an identity-equal value; one level deep.
C9_ShallowEqualIsReference ==
    call.fn = "shallowEqual" =>
        /\ call.ret = ReferenceComparator(call.a, call.b)
        /\ (call.a = NaN /\ call.b = NaN) => call.ret
        /\ {call.a, call.b} = {PlusZero, MinusZero} => ~call.ret
        /\ ( /\ IsObjectLike(call.a) /\ IsObjectLike(call.b) /\ call.a # call.b
             /\ \E k \in EnumerableKeys(call.a) :
                   /\ IsObjectLike(Get(call.a, k))
                   /\ IsObjectLike(Get(call.b, k))
                   /\ Get(call.a, k) # Get(call.b, k) ) => ~call.ret

\* {x: o3} against {x: o4}, o3 and o4 distinct objects that are both {x: 1}
C9_Witness ==
    /\ call.fn = "shallowEqual"
    /\ call.a = Obj("o1")
    /\ call.b = Obj("o2")
    /\ DOMAIN heap["o1"] = {"x"}
    /\ DOMAIN heap["o2"] = {"x"}
    /\ Get(call.a, "x") = Obj("o3")
    /\ Get(call.b, "x") = Obj("o4")
    /\ heap["o3"] = heap["o4"]
    /\ ~call.ret

\* C10 (as claimed): shallowEqual(a, b) = shallowEqual(b, a) for every pair of
\* values: primitives, null, undefined, arrays, objects with any own keys.
C10_ShallowEqualSymmetric ==
    call.fn = "shallowEqual" => call.ret = shallowEqual(call.b, call.a)

----------------------------------------------------------------------------
(* Properties of the emitter and the flag *)

\* what the console receives when every warnOnce key outside `seen` is
\* dispatched once and every warn is dispatched
RECURSIVE ExpectedOutput(_, _)
ExpectedOutput(requests, seen) ==
    IF requests = <<>> THEN <<>>
    ELSE LET r == Head(requests)
         IN  IF r.once /\ r.key \in seen
             THEN ExpectedOutput(Tail(requests), seen)
             ELSE <<r.message>>
                  \o ExpectedOutput(Tail(requests),
                                    IF r.once THEN seen \cup {r.key} ELSE seen)

\* C1: with diagnostics enabled, over any interleaving of warnOnce, warn and
\* clearWarnings calls from any callers, warnOnce(key, message) dispatches
\* message exactly when key has not been passed to warnOnce since the latest
\* clearWarnings (or since the start).
C1_WarnOnceDispatchesFreshKeysOnly ==
    __DEV__ => emitted = ExpectedOutput(passed, seenBefore)

\* the hook has warned under a key, and a later direct warnOnce call with
\* that key is swallowed
C1_Witness ==
    /\ __DEV__
    /\ lastOp.op = "warnOnce"
    /\ passed[1].key = "App:useSafeCallback:excessive-changes"
    /\ passed[1].key \in seenBefore
    /\ site["s1"].renderCount = 3
    /\ site["s1"].changeCount = 3
    /\ emitted = <<>>

\* C2: with the flag disabled no wrapper cycle, warnOnce call or warn call
\* dispatches to the console, and the key set stays as it was.
C2_DisabledIsInert ==
    ~__DEV__ => (emitted = <<>> /\ warnedKeys = {})

\* disabled, the hook has rendered, and warnOnce was called with a key for the
\* second time
C2_Witness ==
    /\ ~__DEV__
    /\ site["s1"].memo.has
    /\ lastOp.op = "warnOnce"
    /\ passed[1].key \in seenBefore
    /\ passed[1].key \notin warnedKeys

\* C4 (as claimed): the flag is read at each call: after the environment's
\* switch is toggled, the next warn, the next warnOnce with a fresh key and
\* the next wrapper cycle follow the switch's new value.
C4_FlagReadAtEachCall ==
    /\ lastOp.op = "warn" => (emitted # <<>> <=> nodeEnv # "production")
    /\ (lastOp.op = "warnOnce" /\ passed[1].key \notin seenBefore)
          => (emitted # <<>> <=> nodeEnv # "production")
    /\ lastOp.op = "render" => (lastOp.tracked <=> nodeEnv # "production")

\* C4 (amended): the flag is read once, when devOnly.ts is evaluated; every
\* later warn, warnOnce with a fresh key and wrapper cycle follows the value
\* the switch had then, whatever the switch is at the time of the call.
C4_FlagReadAtModuleLoad ==
    /\ lastOp.op = "warn" => (emitted # <<>> <=> loadedEnv # "production")
    /\ (lastOp.op = "warnOnce" /\ passed[1].key \notin seenBefore)
          => (emitted # <<>> <=> loadedEnv # "production")
    /\ lastOp.op = "render" => (lastOp.tracked <=> loadedEnv # "production")

\* the switch says production, the module was evaluated under development,
\* and warn still dispatches
C4_Witness ==
    /\ nodeEnv = "production"
    /\ loadedEnv = "development"
    /\ lastOp.op = "warn"
    /\ emitted = <<"m1">>

----------------------------------------------------------------------------
(* Properties of detectUnstableDeps *)

\* the indices the detector is to report for current against previous
UnstableIndexSet(current, previous) ==
    {i \in 0 .. Len(current) - 1 :
        /\ At(current, i) # At(previous, i)
        /\ IsObjectLike(At(current, i))
        /\ IsObjectLike(At(previous, i))
        /\ ReferenceComparator(At(current, i), At(previous, i))}

\* C11 (as claimed): detectUnstableDeps(current, previous) is the empty list
\* when previous is absent; otherwise exactly the ascending indices
\* i < len(current) where current[i] and previous[i] are distinct object-like
\* values that are shallowEqual.
C11_UnstableIndicesExact ==
    call.fn = "detectUnstableDeps" =>
        IF ~call.b.present THEN call.ret = <<>>
        ELSE /\ Ascending(call.ret)
             /\ Elems(call.ret) = UnstableIndexSet(call.a, call.b.items)

\* C11 (amended): with the diagnostics flag enabled the detector returns the
\* empty list for an absent previous list and otherwise exactly the ascending
\* unstable indices; with the flag disabled it returns the empty list.
C11_UnstableIndicesExactWhenEnabled ==
    call.fn = "detectUnstableDeps" =>
        IF ~call.flag \/ ~call.b.present THEN call.ret = <<>>
        ELSE /\ Ascending(call.ret)
             /\ Elems(call.ret) = UnstableIndexSet(call.a, call.b.items)

\* [{x: 1}] against a previous [{x: 1}] made of another object gives [0]
C11_Witness ==
    /\ call.fn = "detectUnstableDeps"
    /\ call.flag
    /\ call.a = <<Obj("o2")>>
    /\ call.b = Present(<<Obj("o1")>>)
    /\ call.ret = <<0>>

----------------------------------------------------------------------------
(* Properties of the identity tracker *)

\* the step is an update of tracker c, or a tracking render of call-site c
IsTrackerUpdate(c) ==
    /\ c \in Trackers
    /\ lastOp'.op = "updateCallbackTracker"
    /\ site'[c].prevCallback = call'.a
IsTrackingRender(c) ==
    /\ c \in Sites
    /\ lastOp'.op = "render"
    /\ lastOp'.tracked

\* the identity the step hands to the tracking
CurrentIdentity(c) == IF c \in Trackers THEN call'.a ELSE site'[c].memo.cb

\* C12: changeCount starts at 0 and never decreases; an update adds exactly 1
\* when the current identity differs from the recorded one and 0 otherwise,
\* leaves the current identity recorded, and the identityChanged and
\* changeCount that updateCallbackTracker returns describe the update.
C12_ChangeCountCountsIdentityChanges ==
    /\ \A c \in DOMAIN site : site[c].changeCount = 0
    /\ [][\A c \in DOMAIN site :
            /\ site'[c].changeCount >= site[c].changeCount
            /\ (IsTrackerUpdate(c) \/ IsTrackingRender(c)) =>
                  /\ site'[c].changeCount = site[c].changeCount
                        + (IF site[c].prevCallback # CurrentIdentity(c)
                           THEN 1 ELSE 0)
                  /\ site'[c].prevCallback = CurrentIdentity(c)
            /\ IsTrackerUpdate(c) =>
                  /\ call'.ret.identityChanged
                        = (site[c].prevCallback # call'.a)
                  /\ call'.ret.changeCount = site'[c].changeCount
            /\ ~(IsTrackerUpdate(c) \/ IsTrackingRender(c)) =>
                  site'[c].changeCount = site[c].changeCount]_vars

\* a tracker that has counted two changes and whose latest update found the
\* identity unchanged
C12_Witness ==
    /\ DOMAIN site = Trackers
    /\ call.fn = "updateCallbackTracker"
    /\ ~call.ret.identityChanged
    /\ call.ret.changeCount = 2
    /\ site["t1"].changeCount = 2

\* a call-site whose memoized callback kept its identity over a render
C12_WitnessHook ==
    /\ DOMAIN site = Sites
    /\ lastOp.op = "render"
    /\ lastOp.tracked
    /\ site["s1"].renderCount = 3
    /\ site["s1"].changeCount = 2

----------------------------------------------------------------------------
(* Properties of isExcessiveCallbackChange *)

IsExcessiveCall == call.fn = "isExcessiveCallbackChange"

\* C13 (as claimed): isExcessiveCallbackChange(changeCount, totalCycles) is
\* true exactly when (totalCycles > 2 and changeCount = totalCycles) or
\* changeCount > 5, for all non-negative counters, and depends on nothing else.
C13_ExcessiveChangeRule ==
    IsExcessiveCall =>
        /\ call.ret = ((call.b > 2 /\ call.a = call.b) \/ call.a > 5)
        /\ call.ret = call.ret0

\* C13 (amended): with the diagnostics flag enabled the result is true exactly
\* when (totalCycles > 2 and changeCount = totalCycles) or changeCount > 5,
\* whatever was called before; with the flag disabled it is false.
C13_ExcessiveChangeRuleWhenEnabled ==
    IsExcessiveCall =>
        call.ret = (call.flag /\ ((call.b > 2 /\ call.a = call.b) \/ call.a > 5))

\* (3, 3) is excessive with the flag enabled
C13_Witness ==
    /\ IsExcessiveCall
    /\ call.flag
    /\ call.a = 3
    /\ call.b = 3
    /\ call.ret

----------------------------------------------------------------------------
(* Properties of useSafeMemo *)

IsMemoRender == lastOp.op = "renderMemo" /\ lastOp.tracked

\* the latest operation called warnOnce with a key of this issue type
Requested(issueType) ==
    \E i \in 1 .. Len(passed) :
        /\ passed[i].once
        /\ passed[i].key = "App:" \o issueType

ThresholdOf(options) ==
    IF options.recomputeThreshold = None THEN 10
    ELSE options.recomputeThreshold[1]

\* C14 (as claimed): a cycle is classified excessive exactly when the factory
\* ran in it, the factory-run count exceeds the threshold (default 10) and
\* equals the render count.
C14_ExcessiveRecomputeRule ==
    IsMemoRender =>
        (Requested("useSafeMemo:excessive-recompute")
            <=> /\ lastOp.factoryRan
                /\ site["s1"].recomputeCount > ThresholdOf(lastOp.options)
                /\ site["s1"].recomputeCount = site["s1"].renderCount)

\* C14 (amended): with warnOnRecompute not false, a cycle is classified
\* excessive exactly when the factory ran in it, the factory-run count exceeds
\* the threshold (default 10) and equals the render count; with
\* warnOnRecompute false no cycle is. The factory-run count falls behind the
\* render count for good once the factory is skipped, and with the default
\* threshold no excessive-recompute warning is dispatched before cycle 11.
C14_ExcessiveRecomputeRuleUnlessOptedOut ==
    /\ IsMemoRender =>
        (Requested("useSafeMemo:excessive-recompute")
            <=> /\ lastOp.options.warnOnRecompute # Some(FALSE)
                /\ lastOp.factoryRan
                /\ site["s1"].recomputeCount > ThresholdOf(lastOp.options)
                /\ site["s1"].recomputeCount = site["s1"].renderCount)
    /\ IsMemoRender /\ ~lastOp.factoryRan =>
            site["s1"].recomputeCount < site["s1"].renderCount
    /\ site["s1"].recomputeCount <= site["s1"].renderCount
    /\ ( /\ IsMemoRender
         /\ lastOp.options.recomputeThreshold = None
         /\ Requested("useSafeMemo:excessive-recompute") )
            => site["s1"].renderCount >= 11

\* cycle 15 recomputes for the 11th time under the default threshold: not
\* excessive
C14_Witness ==
    /\ IsMemoRender
    /\ lastOp.options = DefaultMemoOptions
    /\ lastOp.factoryRan
    /\ site["s1"].recomputeCount = 11
    /\ site["s1"].renderCount = 15
    /\ ~Requested("useSafeMemo:excessive-recompute")

\* cycle 11 recomputes for the 11th time under the default threshold and the
\* warning is dispatched
C14_WitnessExcessive ==
    /\ IsMemoRender
    /\ lastOp.options = DefaultMemoOptions
    /\ site["s1"].recomputeCount = 11
    /\ site["s1"].renderCount = 11
    /\ Requested("useSafeMemo:excessive-recompute")
    /\ Len(emitted) = 1

----------------------------------------------------------------------------
(* Properties of the effect hooks *)

IsEffectRender == lastOp.op = "renderEffect" /\ lastOp.tracked

\* the deps the call-site was given in this cycle and in the cycle before
DepsNow == call.now
DepsBefore == call.before

\* the latest render called warn: the length-change warning
LengthChangeReport == \E i \in 1 .. Len(passed) : ~passed[i].once

\* C15: the previous-value holder read in cycle N is the dependency list
\* given in cycle N-1 and undefined in cycle 1; a first cycle with a list
\* reports nothing, equal lengths report no length change, and differing
\* lengths report lengthChanged with the previous and the current length.
C15_PreviousIsLastCycle ==
    IsEffectRender =>
        /\ lastOp.prevDeps = DepsBefore
        /\ call.cycles = 1 => ~lastOp.prevDeps.present
        /\ (call.cycles = 1 /\ DepsNow.present) => passed = <<>>
        /\ ( /\ lastOp.options.warnOnChangingDeps # Some(FALSE)
             /\ DepsNow.present
             /\ DepsBefore.present ) =>
                IF Len(DepsNow.items) = Len(DepsBefore.items)
                THEN /\ ~LengthChangeReport
                     /\ ~lastOp.changes.lengthChanged
                     /\ (DepsNow = DepsBefore => ~lastOp.changes.hasChanges)
                ELSE /\ LengthChangeReport
                     /\ Len(emitted) >= 1
                     /\ lastOp.changes.lengthChanged
                     /\ lastOp.changes.prevLength = Some(Len(DepsBefore.items))
                     /\ lastOp.changes.currentLength = Some(Len(DepsNow.items))

\* [a, b] then [a, b, c] in the third cycle: the length change 2 -> 3 is
\* reported
C15_Witness ==
    /\ IsEffectRender
    /\ site["s1"].kind = "useSafeEffect"
    /\ call.cycles = 3
    /\ call.before = Present(<<Obj("o2"), Obj("o1")>>)
    /\ call.now = Present(<<Obj("o2"), Obj("o1"), Obj("o1")>>)
    /\ lastOp.prevDeps = Present(<<Obj("o2"), Obj("o1")>>)
    /\ LengthChangeReport
    /\ lastOp.changes.prevLength = Some(2)
    /\ lastOp.changes.currentLength = Some(3)
    /\ Len(emitted) = 1

\* the latest render called warnOnce for the no-deps issue of its hook, and
\* the message reached the console
NoDepsRequested == Requested(site["s1"].kind \o ":no-deps")
NoDepsDispatched ==
    \E i \in 1 .. Len(passed), j \in 1 .. Len(emitted) :
        /\ passed[i].once
        /\ passed[i].key = "App:" \o site["s1"].kind \o ":no-deps"
        /\ emitted[j] = passed[i].message

NoDepsFirstCycle ==
    /\ call.cycles = 1
    /\ ~DepsNow.present
    /\ lastOp.options.warnOnMissingDeps # Some(FALSE)

\* C20 (as claimed): a first cycle without a dependency list and with
\* warnOnMissingDeps not false dispatches the no-deps warning; no other cycle
\* dispatches it.
C20_NoDepsWarnedOnFirstCycle ==
    IsEffectRender => (NoDepsDispatched <=> NoDepsFirstCycle)

\* C20 (amended): the no-deps warning is requested through warnOnce exactly in
\* a first cycle without a dependency list and with warnOnMissingDeps not
\* false, and reaches the console exactly when its key has not been warned
\* since the last clearWarnings; no other cycle requests or dispatches it.
C20_NoDepsRequestedOnFirstCycle ==
    IsEffectRender =>
        /\ NoDepsRequested <=> NoDepsFirstCycle
        /\ NoDepsDispatched <=>
              /\ NoDepsFirstCycle
              /\ ("App:" \o site["s1"].kind \o ":no-deps") \notin seenBefore

\* the first cycle of a useSafeLayoutEffect call-site without a dependency
\* list dispatches the warning
C20_Witness ==
    /\ IsEffectRender
    /\ site["s1"].kind = "useSafeLayoutEffect"
    /\ NoDepsFirstCycle
    /\ NoDepsDispatched
    /\ Len(emitted) = 1

\* the first cycle of a remounted call-site: requested, not dispatched
C20_WitnessAlreadyWarned ==
    /\ IsEffectRender
    /\ NoDepsFirstCycle
    /\ NoDepsRequested
    /\ emitted = <<>>

----------------------------------------------------------------------------
(* Properties of useSafeState, useSafeReducer, useSafeContext, useIsMounted *)

KindIs(kinds) == site["s1"].kind \in kinds
StateKinds == {"useSafeState", "useSafeReducer"}

\* C16 (as claimed): a wrapper forwards to the primitive under it exactly the
\* updates and actions its returned function is called with, as it does with
\* diagnostics disabled, and returns the primitive's state.
C16_ForwardsEveryUpdate ==
    KindIs(StateKinds) =>
        /\ site["s1"].forwarded = site["s1"].called
        /\ lastOp.op = "render" => lastOp.returns.state = site["s1"].prim.state

IsContextRender == KindIs({"useSafeContext"}) /\ lastOp.op = "render"

\* C17: with diagnostics enabled a render of useSafeContext throws exactly
\* when the value is undefined and throwOnMissing is true, and then
\* dispatches nothing; otherwise it returns the value unchanged and
\* dispatches one warning exactly when the value is undefined. No other
\* wrapper throws, and with diagnostics disabled nothing is thrown.
C17_ThrowsOnlyOnOptIn ==
    /\ (IsContextRender /\ lastOp.tracked) =>
          /\ lastOp.threw <=> /\ lastOp.arg = Undefined
                               /\ lastOp.options.throwOnMissing = Some(TRUE)
          /\ lastOp.threw => emitted = <<>>
          /\ ~lastOp.threw =>
                /\ lastOp.returns.state = lastOp.arg
                /\ Len(emitted) = (IF lastOp.arg = Undefined THEN 1 ELSE 0)
    /\ (lastOp.op = "render" /\ lastOp.threw) =>
          (KindIs({"useSafeContext"}) /\ lastOp.tracked)

\* a render without a provider and without the opt-in warns and returns
\* undefined, for the second time
C17_Witness ==
    /\ IsContextRender
    /\ lastOp.tracked
    /\ lastOp.arg = Undefined
    /\ lastOp.options.throwOnMissing = None
    /\ ~lastOp.threw
    /\ Len(emitted) = 1
    /\ site["s1"].renders = 2

\* a render without a provider and with the opt-in throws
C17_WitnessThrow ==
    /\ IsContextRender
    /\ lastOp.threw
    /\ emitted = <<>>

IsSetterCall == KindIs(StateKinds) /\ lastOp.op = "call" /\ lastOp.tracked

\* C18: with diagnostics enabled, a call of a returned setter or dispatch
\* made after the component's unmount cleanup has run dispatches one
\* warning, every time and without recording a key; a call while the
\* component is mounted dispatches nothing.
C18_WarnsAfterUnmount ==
    IsSetterCall =>
        /\ lastOp.afterCleanup => Len(emitted) = 1
        /\ lastOp.whileMounted => Len(emitted) = 0
        /\ warnedKeys = {}

\* the second dispatch after the unmount warns again
C18_Witness ==
    /\ IsSetterCall
    /\ KindIs({"useSafeReducer"})
    /\ lastOp.afterCleanup
    /\ Len(site["s1"].called) = 2
    /\ site["s1"].forwarded = <<>>
    /\ Len(emitted) = 1

\* the mount effect of the call-site has run
MountEffectRan == site["s1"].renders > 0 /\ ~site["s1"].effectPending

\* the component has left the tree and the mount effect's cleanup has run
UnmountCleanupRan == ~site["s1"].mounted /\ ~site["s1"].cleanupPending

\* C19: the function useIsMounted returns answers true exactly between the
\* mount effect and the unmount cleanup, and is the same function on every
\* render.
C19_IsMountedTracksLifecycle ==
    KindIs({"useIsMounted"}) =>
        /\ isMounted(site["s1"]) <=> MountEffectRan /\ ~UnmountCleanupRan
        /\ lastOp.op = "isMounted" =>
              lastOp.returns = (MountEffectRan /\ ~UnmountCleanupRan)
        /\ lastOp.op = "render" => lastOp.returns.fn = Fn("render1")

\* the function answers true after the second render, and false after unmount
C19_Witness ==
    /\ KindIs({"useIsMounted"})
    /\ site["s1"].renders = 2
    /\ ~site["s1"].mounted
    /\ site["s1"].called = <<FALSE, TRUE, FALSE>>

\* C21: with warnOnChangingDeps not false, useSafeEffect and
\* useSafeLayoutEffect print the length-change warning in every cycle whose
\* dependency list has a length different from the previous cycle's list,
\* whatever was warned before, and in no cycle where the lengths are equal: k
\* length changes print k warnings.
C21_LengthChangeNeverDeduplicated ==
    /\ call.fn = "history" => call.lengthWarnings = call.lengthChanges
    /\ ( /\ IsEffectRender
         /\ lastOp.options.warnOnChangingDeps # Some(FALSE)
         /\ DepsNow.present
         /\ DepsBefore.present ) =>
            ( Len(DepsNow.items) # Len(DepsBefore.items)
                <=> \E i \in 1 .. Len(passed), j \in 1 .. Len(emitted) :
                        /\ ~passed[i].once
                        /\ emitted[j] = passed[i].message )

\* the lengths 1, 2, 1 in three cycles: the second length change is printed
\* like the first
C21_Witness ==
    /\ IsEffectRender
    /\ call.cycles = 3
    /\ call.lengthChanges = 2
    /\ call.lengthWarnings = 2
    /\ Len(DepsBefore.items) = 2
    /\ Len(DepsNow.items) = 1
    /\ Len(emitted) >= 1

IsCallbackRender == lastOp.op = "renderCallback" /\ lastOp.tracked

\* some dependency at an index of the current list is not the value the
\* previous cycle had at that index
SomeDepChanged ==
    /\ DepsNow.present
    /\ DepsBefore.present
    /\ \E i \in 1 .. Len(DepsNow.items) :
          \/ i > Len(DepsBefore.items) /\ DepsNow.items[i] # Undefined
          \/ i <= Len(DepsBefore.items)
                /\ DepsNow.items[i] # DepsBefore.items[i]

\* the memoized callback this cycle returned is the one the cycle before
\* returned
SameCallbackAsBefore == call.returned = call.returnedBefore

\* the latest render's warnOnce call for this issue type printed its message
Dispatched(issueType) ==
    \E i \in 1 .. Len(passed), j \in 1 .. Len(emitted) :
        /\ passed[i].once
        /\ passed[i].key = "App:" \o issueType
        /\ emitted[j] = passed[i].message

\* C22: in a cycle after the first with warnOnStaleClosure not false, a
\* changed dependency with an unchanged memoized callback requests the
\* stale-closure warning, printed unless its key was warned before; a cycle
\* in which the callback identity changed does not print it.
C22_StaleClosureWarned ==
    ( /\ IsCallbackRender
      /\ call.cycles > 1
      /\ lastOp.options.warnOnStaleClosure # Some(FALSE) ) =>
        /\ (SomeDepChanged /\ SameCallbackAsBefore) =>
              /\ Requested("useSafeCallback:stale-closure")
              /\ "App:useSafeCallback:stale-closure" \notin seenBefore
                    => Dispatched("useSafeCallback:stale-closure")
        /\ ~SameCallbackAsBefore
              => ~Dispatched("useSafeCallback:stale-closure")

IsSiteRender == lastOp.op = "renderSite" /\ lastOp.tracked

\* C23 (as claimed): a call-site that meets the condition of a deduplicated
\* warning has it printed unless that same call-site had it printed before,
\* whatever other call-sites have had printed.
C23_KeyedPerCallSite ==
    IsSiteRender =>
        \A k \in lastOp.requested :
            k \notin lastOp.printedBefore[lastOp.site] => k \in lastOp.printed

\* C23: a call-site that meets the condition of a deduplicated warning has
\* it printed exactly when no call-site with the same component name and
\* the same hook name had it printed before: call-sites that share both
\* names share the key, call-sites that differ in one have their own.
C23_KeyedPerComponentAndHookName ==
    IsSiteRender =>
        \A k \in lastOp.requested :
            k \in lastOp.printed
                <=> \A d \in TwoSites :
                        ( /\ call.names[d] = call.names[lastOp.site]
                          /\ call.components[d]
                                = call.components[lastOp.site] )
                            => k \notin lastOp.printedBefore[d]

\* the second call-site, under the same names as the first, reaches its
\* third ever-changing cycle after the first one had the excessive-changes
\* warning printed: nothing is printed for it
C23_Witness ==
    /\ IsSiteRender
    /\ lastOp.site = "s2"
    /\ call.names["s2"] = call.names["s1"]
    /\ call.components["s2"] = call.components["s1"]
    /\ "excessive-changes" \in lastOp.requested
    /\ "excessive-changes" \in lastOp.printedBefore["s1"]
    /\ "excessive-changes" \notin lastOp.printedBefore["s2"]
    /\ "excessive-changes" \notin lastOp.printed

\* in another component the second call-site, under the same hook name, has
\* its own warning printed
C23_WitnessOtherComponent ==
    /\ IsSiteRender
    /\ lastOp.site = "s2"
    /\ call.names["s2"] = call.names["s1"]
    /\ call.components["s1"] = "App"
    /\ call.components["s2"] = "Panel"
    /\ site["s1"].componentName = "App"
    /\ site["s2"].componentName = "Panel"
    /\ "excessive-changes" \in lastOp.printedBefore["s1"]
    /\ "excessive-changes" \notin lastOp.printedBefore["s2"]
    /\ "excessive-changes" \in lastOp.printed

\* under another hook name the second call-site has its own warning printed
C23_WitnessOwnKey ==
    /\ IsSiteRender
    /\ lastOp.site = "s2"
    /\ call.names["s2"] = Some("other")
    /\ "excessive-changes" \in lastOp.printedBefore["s1"]
    /\ "excessive-changes" \in lastOp.printed

\* C24: createWarningKey gives equal keys for equal arguments and different
\* keys for different (componentName, hookName, issueType) triples, a
\* missing componentName included.
C24_KeyDeterministicAndInjective ==
    call.fn = "createWarningKey" =>
        /\ call.ret = call.ret0
        /\ call.a = call.b => call.ret[1] = call.ret[2]
        /\ call.a # call.b => call.ret[1] # call.ret[2]

\* C25: the store of warned keys only grows except at clearWarnings:
\* warnOnce adds at most the key it was given, a render adds at most the
\* keys it passed to warnOnce, warn and the pure computations leave the
\* store as it is, clearWarnings empties it, and no other step removes a
\* key.
C25_StoreOnlyGrows ==
    [][ /\ lastOp'.op = "warnOnce"
            => /\ warnedKeys \subseteq warnedKeys'
               /\ warnedKeys' \ warnedKeys \subseteq {passed'[1].key}
        /\ lastOp'.op \in {"warn", "pure", "effects", "setEnv"}
            => warnedKeys' = warnedKeys
        /\ lastOp'.op = "render"
            => /\ warnedKeys \subseteq warnedKeys'
               /\ warnedKeys' \ warnedKeys \subseteq OnceKeys(passed')
        /\ lastOp'.op = "clearWarnings" => warnedKeys' = {}
        /\ lastOp'.op # "clearWarnings" => warnedKeys \subseteq warnedKeys'
      ]_vars

\* a second key has just been added and printed: the first one is still
\* in the store
C25_Witness ==
    /\ lastOp.op = "warnOnce"
    /\ emitted = <<"m1">>
    /\ passed[1].key = "k1"
    /\ warnedKeys = {"k1", "App:useSafeCallback:excessive-changes"}

\* the memoized callback returned has been a new one in every cycle so far
ChangedOnEveryCycle == call.changes = call.cycles

\* C26: useSafeCallback prints no excessive-changes warning in the first two
\* cycles of a call-site; while the memoized callback changes on every
\* cycle the change count equals the render count, and in cycle 3 the
\* warning is requested, and printed unless its key was warned before.
C26_ExcessiveFromThirdCycle ==
    IsCallbackRender =>
        /\ call.cycles <= 2 => ~Requested("useSafeCallback:excessive-changes")
        /\ ChangedOnEveryCycle =>
              /\ site["s1"].changeCount = call.cycles
              /\ site["s1"].renderCount = call.cycles
              /\ call.cycles = 3 =>
                    /\ Requested("useSafeCallback:excessive-changes")
                    /\ "App:useSafeCallback:excessive-changes" \notin seenBefore
                          => Dispatched("useSafeCallback:excessive-changes")

\* four cycles, a new callback in each: the counters are at 4 and the
\* warning printed in cycle 3 is recorded
C26_Witness ==
    /\ IsCallbackRender
    /\ call.cycles = 4
    /\ ChangedOnEveryCycle
    /\ site["s1"].changeCount = 4
    /\ site["s1"].renderCount = 4
    /\ "App:useSafeCallback:excessive-changes" \in warnedKeys
    /\ Requested("useSafeCallback:excessive-changes")
    /\ ~Dispatched("useSafeCallback:excessive-changes")

\* the third cycle prints the warning
C26_WitnessThirdCycle ==
    /\ IsCallbackRender
    /\ call.cycles = 3
    /\ ChangedOnEveryCycle
    /\ Dispatched("useSafeCallback:excessive-changes")

\* C27: a cycle of one call-site, and the effects of that cycle, change
\* that call-site's counters and previous-value holder and possibly the
\* store of warned keys; the counters, the holder and every other ref of
\* each other call-site are left as they were, in any interleaving.
C27_OtherCallSitesUntouched ==
    [][ lastOp'.op \in {"renderSite", "effects"} =>
            /\ \A d \in TwoSites \ {lastOp'.site} : site'[d] = site[d]
            /\ site'[lastOp'.site].renderCount
                  \in {site[lastOp'.site].renderCount,
                       site[lastOp'.site].renderCount + 1}
            /\ <<nodeEnv, loadedEnv, heap>>' = <<nodeEnv, loadedEnv, heap>>
      ]_vars

\* the second call-site is rendered for the second time while the first,
\* rendered three times with three callbacks, still waits for its effects:
\* the first keeps its counts and its holder
C27_Witness ==
    /\ IsSiteRender
    /\ lastOp.site = "s2"
    /\ site["s1"].renderCount = 3
    /\ site["s1"].changeCount = 3
    /\ site["s1"].effectPending
    /\ site["s1"].previous.present
    /\ site["s2"].renderCount = 2
    /\ site["s2"].changeCount = 1

\* the indices of deps whose value is not the one prevDeps has there, a
\* missing element counting as undefined
StaleIndexSet(deps, prevDeps) ==
    {i \in 0 .. Len(deps) - 1 :
        deps[i + 1] # (IF i < Len(prevDeps) THEN prevDeps[i + 1] ELSE Undefined)}

Least(indices) == CHOOSE i \in indices : \A j \in indices : i <= j

StaleDescription(i) ==
    Some("Dependency at index " \o ToString(i)
         \o " changed but callback was not updated. "
         \o "This may cause the callback to use stale values.")

StaleOutcome(expected) ==
    IF expected
    THEN /\ call.ret.isStale
         /\ call.ret.description
               = StaleDescription(Least(StaleIndexSet(call.a.deps, call.b.items)))
    ELSE /\ ~call.ret.isStale
         /\ call.ret.description = None

\* C28 (as claimed): detectStaleClosure answers isStale exactly when
\* callbackChanged is false, prevDeps is present and some index of deps
\* holds a value that is not identity-equal to prevDeps' value there, and
\* the description names the smallest such index; otherwise it answers
\* not stale without a description.
C28_StaleExactly ==
    call.fn = "detectStaleClosure" =>
        StaleOutcome(/\ ~call.a.callbackChanged
                     /\ call.b.present
                     /\ StaleIndexSet(call.a.deps, call.b.items) # {})

\* C28: the same, when diagnostics are enabled; when they are disabled the
\* answer is not stale, without a description, for all arguments.
C28_StaleExactlyWhenEnabled ==
    call.fn = "detectStaleClosure" =>
        StaleOutcome(/\ call.flag
                     /\ ~call.a.callbackChanged
                     /\ call.b.present
                     /\ StaleIndexSet(call.a.deps, call.b.items) # {})

\* [NaN, o2] against [NaN, o1] with the callback unchanged: NaN is
\* identity-equal to NaN, index 1 is the first that differs
C28_Witness ==
    /\ call.fn = "detectStaleClosure"
    /\ call.flag
    /\ call.a = [deps |-> <<NaN, Obj("o2")>>, callbackChanged |-> FALSE]
    /\ call.b = Present(<<NaN, Obj("o1")>>)
    /\ call.ret.isStale
    /\ call.ret.description = StaleDescription(1)

IsWrapperRender == lastOp.op = "renderWrapper" /\ lastOp.tracked

\* the list of this cycle has an index that holds a shallow-equal copy of
\* the object the list of the cycle before held there
UnstableNow ==
    /\ DepsNow.present
    /\ DepsBefore.present
    /\ UnstableIndexSet(DepsNow.items, DepsBefore.items) # {}

UnstableRequested == Requested(call.kind \o ":unstable-deps")
UnstableDispatched == Dispatched(call.kind \o ":unstable-deps")

\* C29 (as claimed): no wrapper prints the unstable-deps warning in the
\* first two cycles of a call-site; from cycle 3 on it is printed in the
\* first cycle whose list has an unstable index against the list of the
\* cycle before, and at most once.
C29_UnstableFromThirdCycle ==
    /\ call.unstableWarnings <= 1
    /\ IsWrapperRender =>
          /\ call.cycles <= 2 => ~UnstableDispatched
          /\ (call.cycles >= 3 /\ UnstableNow /\ ~UnstableDispatched)
                => call.unstableWarnings = 1

\* C29: the same, where for the effect hooks the cycle counts only with
\* warnOnChangingDeps not false, and the warning is printed unless its key
\* was warned before; in all other cycles nothing is requested.
C29_UnstableFromThirdCycleUnlessOptedOut ==
    /\ call.unstableWarnings <= 1
    /\ IsWrapperRender =>
          LET reported == /\ call.cycles >= 3
                          /\ UnstableNow
                          /\ lastOp.warnOnChangingDeps # Some(FALSE)
          IN  /\ UnstableRequested <=> reported
              /\ UnstableDispatched
                    <=> ( /\ reported
                          /\ ("App:" \o call.kind \o ":unstable-deps")
                                \notin seenBefore )
              /\ (reported /\ ~UnstableDispatched)
                    => call.unstableWarnings = 1

\* a layout effect given [o1], [o2], [o1], [o2]: the third cycle prints the
\* warning, the fourth requests it again and nothing is printed
C29_Witness ==
    /\ IsWrapperRender
    /\ call.kind = "useSafeLayoutEffect"
    /\ call.cycles = 4
    /\ UnstableNow
    /\ UnstableRequested
    /\ ~UnstableDispatched
    /\ call.unstableWarnings = 1

\* the third cycle of a useSafeMemo call-site prints the warning
C29_WitnessThirdCycle ==
    /\ IsWrapperRender
    /\ call.kind = "useSafeMemo"
    /\ call.cycles = 3
    /\ UnstableDispatched

\* useEffect(effect, deps) and useLayoutEffect(effect, deps) run the effect
\* at the commit of the first cycle, of a cycle given no list or following
\* one given no list, and of a cycle whose list differs from the list of
\* the cycle before at an index both have
NativeRuns ==
    \/ call.cycles = 1
    \/ ~DepsNow.present
    \/ ~DepsBefore.present
    \/ \E i \in 1 .. Len(DepsNow.items) :
          /\ i <= Len(DepsBefore.items)
          /\ DepsNow.items[i] # DepsBefore.items[i]

\* the latest run of the effect returned a function that has not been called
CleanupDue(c) == site[c].active /\ typeof(site[c].cleanup) = "function"

\* the step is the phase of a commit in which the wrapped effect runs: the
\* layout phase when the effect is a layout effect, the passive one otherwise
WrappedEffectPhase(c) ==
    \/ lastOp'.op = "layout"
    \/ lastOp'.op = "effects" /\ ~useIsomorphicLayoutEffect(site[c].kind, site[c])

\* the step is the phase of an unmount in which the wrapped effect's cleanup
\* runs: the removal for a layout effect, the passive cleanups otherwise
WrappedCleanupPhase(c) ==
    \/ lastOp'.op = "unmount" /\ useIsomorphicLayoutEffect(site[c].kind, site[c])
    \/ lastOp'.op = "cleanup" /\ ~useIsomorphicLayoutEffect(site[c].kind, site[c])

\* C30: with diagnostics enabled, the commit of a cycle calls the user's
\* effect exactly when the native hook given (effect, deps) would; what the
\* previous run returned is called once, before the next run or at the
\* unmount, if it is a function, and nothing is called otherwise.
C30_EffectRunsAsNative ==
    [][ __DEV__ =>
          \A c \in Sites :
            /\ (lastOp'.op = "effects" /\ ~WrappedEffectPhase(c)) =>
                  /\ site'[c].ranEffect = site[c].ranEffect
                  /\ site'[c].cleanupCalled = site[c].cleanupCalled
                  /\ site'[c].cleanup = site[c].cleanup
                  /\ CleanupDue(c)' <=> CleanupDue(c)
            /\ WrappedEffectPhase(c) =>
                  /\ site'[c].ranEffect <=> NativeRuns
                  /\ site'[c].cleanupCalled
                        <=> (site'[c].ranEffect /\ CleanupDue(c))
                  /\ site'[c].ranEffect => site'[c].cleanup = site[c].effect
                  /\ ~site'[c].ranEffect
                        => (CleanupDue(c)' <=> CleanupDue(c))
            /\ WrappedCleanupPhase(c) =>
                  /\ ~site'[c].ranEffect
                  /\ site'[c].cleanupCalled <=> CleanupDue(c)
                  /\ ~CleanupDue(c)'
            /\ (lastOp'.op = "unmount" /\ ~WrappedCleanupPhase(c)) =>
                  /\ ~site'[c].ranEffect
                  /\ ~site'[c].cleanupCalled
                  /\ CleanupDue(c)' <=> CleanupDue(c)
            /\ (lastOp'.op = "cleanup" /\ ~WrappedCleanupPhase(c)) =>
                  /\ ~site'[c].ranEffect
                  /\ site'[c].cleanupCalled = site[c].cleanupCalled
                  /\ ~CleanupDue(c)
                  /\ ~CleanupDue(c)'
            /\ lastOp'.op \in {"renderEffect", "remount"} =>
                  /\ ~site'[c].ranEffect
                  /\ ~site'[c].cleanupCalled
                  /\ lastOp'.op = "renderEffect"
                        => (CleanupDue(c)' <=> CleanupDue(c))
      ]_vars

\* the third cycle is given a new object after two cycles with the same
\* one: the effect runs again and the function the first run returned is
\* called before it
C30_Witness ==
    /\ __DEV__
    /\ lastOp.op = "effects"
    /\ call.cycles = 3
    /\ DepsBefore = Present(<<Obj("o1")>>)
    /\ DepsNow = Present(<<Obj("o2")>>)
    /\ site["s1"].ranEffect
    /\ site["s1"].cleanupCalled

\* both cycles were given a list and the lengths differ
LengthDiffers ==
    /\ DepsNow.present
    /\ DepsBefore.present
    /\ Len(DepsNow.items) # Len(DepsBefore.items)

\* C31: useSafeMemo calls warnOnce for the dependency-length warning in
\* exactly the cycles whose list length differs from the cycle before; it
\* is printed in the first of them and never again, however often the
\* length changes afterwards.
C31_MemoLengthWarnedOnce ==
    /\ call.kind = "useSafeMemo" => call.lengthWarnings <= 1
    /\ (IsWrapperRender /\ call.kind = "useSafeMemo") =>
          /\ Requested("useSafeMemo:deps-length") <=> LengthDiffers
          /\ Dispatched("useSafeMemo:deps-length")
                <=> ( /\ LengthDiffers
                      /\ "App:useSafeMemo:deps-length" \notin seenBefore )
          /\ LengthDiffers => call.lengthWarnings = 1

\* the lengths 0, 1, 0: the second change is passed to warnOnce and nothing
\* is printed for it
C31_Witness ==
    /\ IsWrapperRender
    /\ call.kind = "useSafeMemo"
    /\ call.cycles = 3
    /\ LengthDiffers
    /\ Requested("useSafeMemo:deps-length")
    /\ ~Dispatched("useSafeMemo:deps-length")
    /\ call.lengthWarnings = 1

\* C32: with diagnostics enabled, the render count of a call-site is the
\* number of its cycles (1 in the first, one more in each); after the first
\* cycle a useSafeCallback call-site has 1 <= changeCount <= renderCount,
\* and a useSafeMemo call-site has 0 <= recomputeCount <= renderCount at
\* all times.
C32_CountersWithinRenderCount ==
    (__DEV__ /\ call.kind \in {"useSafeCallback", "useSafeMemo"}) =>
        /\ site["s1"].renderCount = call.cycles
        /\ (call.kind = "useSafeCallback" /\ call.cycles >= 1) =>
              /\ 1 <= site["s1"].changeCount
              /\ site["s1"].changeCount <= site["s1"].renderCount
        /\ call.kind = "useSafeMemo" =>
              /\ 0 <= site["s1"].recomputeCount
              /\ site["s1"].recomputeCount <= site["s1"].renderCount

\* four cycles of a useSafeMemo call-site, the factory ran in two of them
C32_Witness ==
    /\ __DEV__
    /\ call.kind = "useSafeMemo"
    /\ call.cycles = 4
    /\ site["s1"].renderCount = 4
    /\ site["s1"].recomputeCount = 2

\* four cycles of a useSafeCallback call-site with one callback throughout
C32_WitnessCallback ==
    /\ __DEV__
    /\ call.kind = "useSafeCallback"
    /\ site["s1"].renderCount = 4
    /\ site["s1"].changeCount = 1

\* C33: in a run where every cycle that changed a dependency at an index
\* common to its list and the list before got a new memoized callback,
\* useSafeCallback requests no stale-closure warning as long as the list
\* has kept its length; when it requests one, the list of the cycle is
\* longer than the one before and the callback is still the first one.
C33_StaleOnlyOnLongerList ==
    (IsCallbackRender /\ call.freshOnChange) =>
        /\ call.sameLength =>
              /\ ~Requested("useSafeCallback:stale-closure")
              /\ ~Dispatched("useSafeCallback:stale-closure")
        /\ Requested("useSafeCallback:stale-closure") =>
              /\ call.cycles > 1
              /\ Len(DepsNow.items) > Len(DepsBefore.items)
              /\ call.changes = 1

\* the list grows from [o1] to [o1, o1] in the third cycle under the first
\* callback: the warning is printed
C33_Witness ==
    /\ IsCallbackRender
    /\ call.freshOnChange
    /\ call.cycles = 3
    /\ DepsBefore = Present(<<Obj("o1")>>)
    /\ DepsNow = Present(<<Obj("o1"), Obj("o1")>>)
    /\ call.changes = 1
    /\ Dispatched("useSafeCallback:stale-closure")

\* C34: useSafeEffect and useSafeLayoutEffect request no length-change and
\* no unstable-deps warning in a cycle given no list or following a cycle
\* given no list, although trackDependencyChanges reports a list against
\* no list as a length change.
C34_NothingReportedAgainstNoList ==
    (IsEffectRender /\ (~DepsNow.present \/ ~DepsBefore.present)) =>
        /\ ~LengthChangeReport
        /\ ~Requested(site["s1"].kind \o ":unstable-deps")
        /\ \A j \in 1 .. Len(passed) :
              passed[j].key = "App:" \o site["s1"].kind \o ":no-deps"
        /\ (call.cycles > 1 /\ DepsNow.present # DepsBefore.present)
              => trackDependencyChanges(DepsNow, DepsBefore).lengthChanged

\* a list of two in the third cycle after a cycle without a list: nothing is
\* reported, whatever the first cycle was given
C34_Witness ==
    /\ IsEffectRender
    /\ call.cycles = 3
    /\ ~DepsBefore.present
    /\ DepsNow = Present(<<Obj("o2"), Obj("o1")>>)
    /\ lastOp.options.warnOnChangingDeps = None
    /\ passed = <<>>
    /\ emitted = <<>>

\* C35: every index detectUnstableDeps reports holds an object in the
\* current and in the previous list - not a function, a primitive, null or
\* an element the previous list does not have - and, when the previous list
\* is present, is one of trackDependencyChanges' changedIndices.
C35_UnstableAreChangedObjects ==
    call.fn = "unstableAndChanged" =>
        /\ ~call.b.present => call.ret.unstable = <<>>
        /\ \A i \in Elems(call.ret.unstable) :
              /\ i >= 0
              /\ i < Len(call.a)
              /\ i < Len(call.b.items)
              /\ call.a[i + 1].type = "object"
              /\ call.b.items[i + 1].type = "object"
              /\ i \in Elems(call.ret.changes.changedIndices)

\* [f1, o2] against [null, o1]: both indices have changed, the one with the
\* two equal objects is reported
C35_Witness ==
    /\ call.fn = "unstableAndChanged"
    /\ call.a = <<Fn("f1"), Obj("o2")>>
    /\ call.b = Present(<<Null, Obj("o1")>>)
    /\ call.ret.unstable = <<1>>
    /\ call.ret.changes.changedIndices = <<0, 1>>

\* C36: detectDepsLengthChange(current, previous) is the lengthChanged field
\* of trackDependencyChanges(current, previous), whether each argument is
\* undefined or a list.
C36_LengthChangeAgrees ==
    call.fn = "lengthAndChanges" =>
        call.ret.length = call.ret.changes.lengthChanged

\* an empty list against no list: both say the length changed
C36_Witness ==
    /\ call.fn = "lengthAndChanges"
    /\ call.a = Present(<<>>)
    /\ call.b = Absent
    /\ call.ret.length
    /\ call.ret.changes.lengthChanged

\* two lists of different lengths
C36_WitnessLists ==
    /\ call.fn = "lengthAndChanges"
    /\ call.a.present /\ call.b.present
    /\ Len(call.a.items) < Len(call.b.items)
    /\ call.ret.length

\* C37: in a development build the mounted flag of an effect hook
\* (isMountedRef.current) is true whenever the component is mounted and the
\* effects of its latest render have run - also after a render whose
\* dependencies changed has re-run the effect.
C37_MountedFlagTracksMounted ==
    \A c \in Sites :
        (/\ __DEV__
         /\ site[c].mounted
         /\ site[c].mountEffectRan
         /\ ~site[c].effectPending) => site[c].isMounted

====
